---- MODULE Spec2Model ----
(***************************************************************************)
(* A model of the news crawler (class NewsCrawler): its progress bus       *)
(* (subscribeToProgress / emitProgress / updateProgress), the per-source   *)
(* worker crawlSource, the batch orchestrator crawlAllSources and the      *)
(* periodic-crawl timer, together with the React hook that drives them.    *)
(*                                                                         *)
(* Granularity.  JavaScript runs one macrotask at a time: an async         *)
(* function runs synchronously up to its next await on a network call or a *)
(* timer, and the promise continuations that follow a resumption run       *)
(* before any other macrotask.  One action of the model is therefore one   *)
(* such run: a public call up to its first real suspension, or the         *)
(* resumption of one worker after a fetch or a delay up to its next        *)
(* suspension.  What the subscribers are shown in the middle of such a run *)
(* is kept in the variable emits.                                          *)
(*                                                                         *)
(* Environment.  A progress callback returns normally, as the two          *)
(* callbacks of the repository do (they store what they are handed in      *)
(* React state); what it may do to the bus is call an unsubscribe          *)
(* function.  A request either returns or fails.  The web the crawler      *)
(* reads is fixed (FeedItems, PageLinks); which requests fail is not.      *)
(***************************************************************************)
EXTENDS Integers, Sequences, FiniteSets, TLC

----------------------------------------------------------------------------
(* Bounds of the model. *)

\* longest source list handed to crawlAllSources
MaxSources == 3
\* number of distinct progress callbacks
MaxHandlers == 3
\* the per-source article cap handed to the constructor (10 when omitted)
maxArticlesPerSource == 3

(* Program constants. *)

\* const batchSize = 2
batchSize == 2
\* getTime() of an Invalid Date is NaN; 0 stands for it, valid times are >= 1
InvalidDate == 0

----------------------------------------------------------------------------
(* Values. *)

None == 0
NoError == ""
AlreadyRunning == "Crawler is already running"

Handlers == 1..MaxHandlers
\* the callback the hook useNewsCrawler registers when it mounts
HookHandler == 1

\* What the callbacks do while they are invoked is a function of Handlers: None
\* for a callback that does nothing to the bus, or the handler whose unsubscribe
\* function it calls.  Passive: no callback touches the bus.
Passive == [h \in Handlers |-> None]

\* a source configuration: the model keeps its id and whether it has an rssUrl
SourcePool ==
  { [id |-> 1, rss |-> TRUE], [id |-> 2, rss |-> FALSE], [id |-> 3, rss |-> TRUE] }

\* the table of pre-configured sources, of which every entry has an rssUrl and
\* is enabled; the model keeps three of the six
NEWS_SOURCES ==
  << [id |-> 1, rss |-> TRUE], [id |-> 3, rss |-> TRUE], [id |-> 4, rss |-> TRUE] >>

SourceLists == UNION { [1..n -> SourcePool] : n \in 0..MaxSources }

\* The web the crawler reads.  A feed item keeps its pubDate (-1 absent, 0
\* present but unparseable, d >= 1 parseable as time d) and whether its content
\* is short (under 200 characters, with a link to the full page).  The feed of
\* source 1 holds more items than the cap; the feed of source 3 one item.
FeedItems(id) ==
  IF id = 1
    THEN << [ pubDate |-> 1, short |-> FALSE ], [ pubDate |-> 0, short |-> FALSE ],
            [ pubDate |-> 2, short |-> FALSE ], [ pubDate |-> 2, short |-> FALSE ] >>
    ELSE << [ pubDate |-> -1, short |-> TRUE ] >>

\* The front page of a source without a feed: one entry per article link,
\* TRUE when the linked page yields a title and more than 100 characters.
PageLinks(id) == << TRUE, FALSE >>

\* what a failed request throws
FetchErrors == { "timeout of 10000ms exceeded", "Failed to fetch content" }

VARIABLES
  isRunning,          \* NewsCrawler.isRunning
  progressCallbacks,  \* the Set of callbacks, in insertion order
  currentProgress,    \* the Map sourceId -> CrawlProgress
  crawledArticles,    \* the result collection
  crawlInterval,      \* TRUE iff the periodic timer is set
  sourcesToCrawl,     \* the source list of the batch in hand
  groupStart,         \* the loop variable i of crawlAllSources
  orch,               \* where crawlAllSources is: "idle", "group", "groupDelay"
  workers,            \* one crawlSource activation per position of sourcesToCrawl
  promise,            \* the promise of the last accepted crawlAllSources call
  unsubscribed,       \* handlers whose unsubscribe function has been called
  stopRequested,      \* the hook's stopCrawling was called during this batch
  op,                 \* the operation the last step ran
  thrown,             \* what the last step threw to its caller
  emits,              \* the emitProgress calls of the last step, in order
  writers,            \* per progress entry, the workers that have written it
  fetcher,            \* the extraction URLFetcher.fetchArticle has in hand
  parser,             \* a page and the articles the page parsers made of it
  analysis            \* RealTimeAnalysisService and its Gemini request

vars == << isRunning, progressCallbacks, currentProgress, crawledArticles,
           crawlInterval, sourcesToCrawl, groupStart, orch, workers, promise,
           unsubscribed, stopRequested, op, thrown, emits, writers,
           fetcher, parser, analysis >>

\* the fields of the other services of the application
services == << fetcher, parser, analysis >>

\* the fields of the crawler and of the hook that drives it
crawler == << isRunning, progressCallbacks, currentProgress, crawledArticles,
              crawlInterval, sourcesToCrawl, groupStart, orch, workers, promise,
              unsubscribed, stopRequested, op, thrown, emits, writers >>

----------------------------------------------------------------------------
(* Small helpers. *)

Min(a, b) == IF a < b THEN a ELSE b

Range(s) == { s[k] : k \in 1..Len(s) }

IndexOf(s, x) == IF x \in Range(s) THEN CHOOSE k \in 1..Len(s) : s[k] = x ELSE 0

RemoveAt(s, k) == [ j \in 1..(Len(s) - 1) |-> IF j < k THEN s[j] ELSE s[j + 1] ]

\* Map.set(k, v)
MapSet(map, k, v) == [ x \in (DOMAIN map) \cup {k} |-> IF x = k THEN v ELSE map[x] ]

\* { ...current, ...updates }
Spread(current, updates) ==
  [ f \in DOMAIN current |-> IF f \in DOMAIN updates THEN updates[f] ELSE current[f] ]

\* Body applied to the value of v: v is evaluated once, as a statement's operand
\* is before the statement runs
With(v, Body(_)) == CHOOSE r \in { Body(x) : x \in {v} } : TRUE

NewProgress(st) ==
  [ status |-> st, progress |-> 0, articlesFound |-> 0, articlesProcessed |-> 0,
    error |-> NoError ]

IdleWorker ==
  [ pc |-> "idle", found |-> 0, i |-> 0, articles |-> << >>, pending |-> None,
    allFailed |-> TRUE ]

----------------------------------------------------------------------------
(* The progress bus. *)

\* Set.prototype.forEach over the live Set: the entries are visited in insertion
\* order, and an entry deleted before its turn is not visited.  k is the
\* position of the next entry to visit, calls the invocations made so far.
RECURSIVE ForEachCallback(_, _, _, _)
ForEachCallback(cbs, k, calls, beh) ==
  IF k > Len(cbs) THEN [ cbs |-> cbs, calls |-> calls ]
  ELSE LET h      == cbs[k]
           victim == beh[h]
           at     == IndexOf(cbs, victim)
           called == Append(calls, h)
       IN  IF at = 0 THEN ForEachCallback(cbs, k + 1, called, beh)
           ELSE IF at <= k THEN ForEachCallback(RemoveAt(cbs, at), k, called, beh)
           ELSE ForEachCallback(RemoveAt(cbs, at), k + 1, called, beh)

\* an iteration by index over the live list, which skips the entry that slides
\* into a removed entry's place
RECURSIVE ForEachByIndex(_, _, _, _)
ForEachByIndex(cbs, k, calls, beh) ==
  IF k > Len(cbs) THEN [ cbs |-> cbs, calls |-> calls ]
  ELSE LET h      == cbs[k]
           victim == beh[h]
           at     == IndexOf(cbs, victim)
           called == Append(calls, h)
       IN  IF at = 0 THEN ForEachByIndex(cbs, k + 1, called, beh)
           ELSE ForEachByIndex(RemoveAt(cbs, at), k + 1, called, beh)

\* the handlers whose unsubscribe function these invocations call
UnsubscribeCalls(calls, beh) ==
  { v \in Handlers : \E j \in 1..Len(calls) : beh[calls[j]] = v }

\* The machine record m carries the crawler's fields through the statements of
\* one step: isRunning, progressCallbacks, currentProgress, crawledArticles,
\* sources, groupStart, orch, workers, promise, emits, writers, unsubscribed, and two values
\* of the step itself: beh, the behaviour of the callbacks during this step,
\* and actor, the worker (position in sources) whose code is running, None
\* while it is crawlAllSources itself.

\* a publish that hands each callback only the entry that changed (id)
EmitProgressDiff(machine, id) ==
  LET Statements(m) ==
        LET d == ForEachCallback(m.progressCallbacks, 1, << >>, m.beh)
            e == [ snapshot    |-> [ x \in (DOMAIN m.currentProgress) \cap {id} |->
                                       m.currentProgress[x] ],
                   articles    |-> m.crawledArticles,
                   running     |-> m.isRunning,
                   subscribers |-> m.progressCallbacks,
                   unsubscribedBefore |-> m.unsubscribed,
                   calls       |-> d.calls,
                   beh         |-> m.beh ]
        IN  [ m EXCEPT !.emits = Append(@, e),
                       !.progressCallbacks = d.cbs,
                       !.unsubscribed = @ \cup UnsubscribeCalls(d.calls, m.beh) ]
  IN  With(machine, Statements)

\* a publish that iterates the callbacks by index
EmitProgressByIndex(machine, id) ==
  LET Statements(m) ==
        LET d == ForEachByIndex(m.progressCallbacks, 1, << >>, m.beh)
            e == [ snapshot    |-> m.currentProgress,
                   articles    |-> m.crawledArticles,
                   running     |-> m.isRunning,
                   subscribers |-> m.progressCallbacks,
                   unsubscribedBefore |-> m.unsubscribed,
                   calls       |-> d.calls,
                   beh         |-> m.beh ]
        IN  [ m EXCEPT !.emits = Append(@, e),
                       !.progressCallbacks = d.cbs,
                       !.unsubscribed = @ \cup UnsubscribeCalls(d.calls, m.beh) ]
  IN  With(machine, Statements)

\* emitProgress: every callback is handed Array.from(currentProgress.values()).
\* The record kept in emits also notes what a callback would read from
\* getArticles() and isCurrentlyRunning() at that moment, the callbacks
\* subscribed when the publish began and what each invoked callback did.  id names the entry
\* whose change caused the publish (None for the initial one); emitProgress
\* itself does not use it.
EmitProgress(machine, id) ==
  LET Statements(m) ==
        LET d == ForEachCallback(m.progressCallbacks, 1, << >>, m.beh)
            e == [ snapshot    |-> m.currentProgress,
                   articles    |-> m.crawledArticles,
                   running     |-> m.isRunning,
                   subscribers |-> m.progressCallbacks,
                   unsubscribedBefore |-> m.unsubscribed,
                   calls       |-> d.calls,
                   beh         |-> m.beh ]
        IN  [ m EXCEPT !.emits = Append(@, e),
                       !.progressCallbacks = d.cbs,
                       !.unsubscribed = @ \cup UnsubscribeCalls(d.calls, m.beh) ]
  IN  With(machine, Statements)

\* an update that writes a fresh entry with the updates instead of spreading
\* the current one
UpdateProgressFresh(machine, id, updates) ==
  LET Statements(m) ==
        IF id \in DOMAIN m.currentProgress
          THEN EmitProgress(
                 [ m EXCEPT !.currentProgress[id] = Spread(NewProgress("pending"), updates),
                            !.writers[id] = @ \cup {m.actor} ], id)
          ELSE m
  IN  With(machine, Statements)

\* updateProgress(sourceId, updates)
UpdateProgress(machine, id, updates) ==
  LET Statements(m) ==
        IF id \in DOMAIN m.currentProgress
          THEN EmitProgress(
                 [ m EXCEPT !.currentProgress[id] = Spread(@, updates),
                            !.writers[id] = @ \cup {m.actor} ], id)
          ELSE m
  IN  With(machine, Statements)

----------------------------------------------------------------------------
(* The final sort of crawlAllSources. *)

\* (a, b) => b.publishDate.getTime() - a.publishDate.getTime(); a NaN result
\* is read by Array.prototype.sort as +0
CompareArticles(a, b) ==
  IF a.publishDate = InvalidDate \/ b.publishDate = InvalidDate
    THEN 0
    ELSE b.publishDate - a.publishDate

\* the place of x in the sorted prefix s: x goes behind the last element that
\* does not have to come after it
RECURSIVE InsertionPoint(_, _, _)
InsertionPoint(s, x, j) ==
  IF j >= 1 /\ CompareArticles(s[j], x) > 0 THEN InsertionPoint(s, x, j - 1) ELSE j

InsertAfter(s, j, x) ==
  [ k \in 1..(Len(s) + 1) |-> IF k <= j THEN s[k] ELSE IF k = j + 1 THEN x ELSE s[k - 1] ]

\* Array.prototype.sort with the comparator above: a stable sort (insertion
\* sort, the engines' choice for short arrays; with a comparator that orders
\* the elements consistently every stable sort gives this same result)
RECURSIVE SortArticles(_)
SortArticles(arts) ==
  IF Len(arts) <= 1 THEN arts
  ELSE LET x == arts[Len(arts)]
           Insert(s) == InsertAfter(s, InsertionPoint(s, x, Len(s)), x)
       IN  With(SortArticles(SubSeq(arts, 1, Len(arts) - 1)), Insert)

----------------------------------------------------------------------------
(* crawlSource, from one suspension to the next. *)

GroupOf(m) ==
  { p \in 1..Len(m.sources) : p > m.groupStart /\ p <= m.groupStart + batchSize }

\* What new Date() reads.  Time is counted in inter-group delays (2000 ms, the
\* longest wait of a batch) since the batch began, from 1: the articles of two
\* batches never meet, because crawlAllSources empties crawledArticles.
Clock(m) == 1 + m.groupStart \div batchSize

\* new Date(item.pubDate) when the item has a pubDate, else new Date()
PublishDateOf(pubDate, clock) ==
  IF pubDate = -1 THEN clock ELSE IF pubDate = 0 THEN InvalidDate ELSE pubDate

\* a finally block that is missing: the batch ends but isRunning stays set
FinishBatchStaysRunning(m) ==
  [ m EXCEPT !.crawledArticles = SortArticles(@),
             !.orch = "idle",
             !.promise = "resolved" ]

\* the end of crawlAllSources: the sort, the finally block and the return
FinishBatch(m) ==
  [ m EXCEPT !.crawledArticles = SortArticles(@),
             !.isRunning = FALSE,
             !.orch = "idle",
             !.promise = "resolved" ]

\* after Promise.all of a group: the delay before the next group, or the end
AfterGroup(machine) ==
  LET Statements(m) ==
        IF m.groupStart + batchSize < Len(m.sources)
          THEN [ m EXCEPT !.orch = "groupDelay" ]
          ELSE FinishBatch(m)
  IN  With(machine, Statements)

\* a caller that waits for the first worker of a group only (Promise.race)
ReturnArticlesRace(machine, p) ==
  LET Statements(m) ==
        LET w     == m.workers[p]
            base  == Len(m.crawledArticles)
            added == [ k \in 1..Len(w.articles) |-> [ w.articles[k] EXCEPT !.ord = base + k ] ]
            m1    == [ m EXCEPT !.crawledArticles = @ \o added,
                                !.workers[p].pc = "done" ]
        IN  IF m1.orch = "group" THEN AfterGroup(m1) ELSE m1
  IN  With(machine, Statements)

\* crawlSource returns its articles; the caller appends them to the result
\* collection (crawledArticles.push(...articles)) and, when it was the last
\* worker of its group, Promise.all resolves
ReturnArticles(machine, p) ==
  LET Statements(m) ==
        LET w     == m.workers[p]
            base  == Len(m.crawledArticles)
            added == [ k \in 1..Len(w.articles) |-> [ w.articles[k] EXCEPT !.ord = base + k ] ]
            m1    == [ m EXCEPT !.crawledArticles = @ \o added,
                                !.workers[p].pc = "done" ]
        IN  IF \A q \in GroupOf(m1) : m1.workers[q].pc = "done" THEN AfterGroup(m1) ELSE m1
  IN  With(machine, Statements)

\* the end of the try block of crawlSource
CompleteSource(m, p) ==
  ReturnArticles(
    UpdateProgress(m, m.sources[p].id, [ status |-> "completed", progress |-> 100 ]), p)

\* a catch block that records nothing
FailSourceSilently(m, p, message) == ReturnArticles(m, p)

\* the catch block of crawlSource
FailSource(m, p, message) ==
  ReturnArticles(
    UpdateProgress(m, m.sources[p].id,
                   [ status |-> "error", progress |-> 0, error |-> message ]), p)

\* articles.push(article) of the feed loop, the progress update and the delay
PushFeedArticle(machine, p) ==
  LET Statements(m) ==
        LET w  == m.workers[p]
            a  == [ src |-> p, idx |-> w.i, publishDate |-> w.pending, ord |-> 0 ]
            m1 == [ m EXCEPT !.workers[p].articles = Append(@, a),
                             !.workers[p].pending = None,
                             !.workers[p].pc = "delay" ]
        IN  UpdateProgress(m1, m.sources[p].id,
                           [ progress |-> 30 + (w.i * 60) \div w.found,
                             articlesProcessed |-> w.i + 1 ])
  IN  With(machine, Statements)

\* one turn of the feed loop at index i: the loop test, the article record,
\* and either the fetch of the full page (short content and a url) or the push
FeedLoop(machine, p) ==
  LET Statements(m) ==
        LET w == m.workers[p]
        IN  IF w.i < Min(w.found, maxArticlesPerSource)
              THEN LET item == FeedItems(m.sources[p].id)[w.i + 1]
                       m1   == [ m EXCEPT !.workers[p].pending =
                                             PublishDateOf(item.pubDate, Clock(m)) ]
                   IN  IF item.short THEN [ m1 EXCEPT !.workers[p].pc = "itemFetch" ]
                                     ELSE PushFeedArticle(m1, p)
              ELSE CompleteSource(m, p)
  IN  With(machine, Statements)

\* one turn of the link loop at index i: the loop test and the fetch of links[i]
LinkLoop(machine, p) ==
  LET Statements(m) ==
        LET w == m.workers[p]
        IN  IF w.i < w.found THEN [ m EXCEPT !.workers[p].pc = "linkFetch" ]
                             ELSE CompleteSource(m, p)
  IN  With(machine, Statements)

\* crawlSource up to its first await: the progress entry, the first update and
\* the request for the feed or for the page of links
BeginCrawlSource(machine, p) ==
  LET Statements(m) ==
        LET s  == m.sources[p]
            m1 == [ m EXCEPT !.actor = p,
                             !.currentProgress = MapSet(@, s.id, NewProgress("crawling")),
                             !.writers = MapSet(@, s.id, (IF s.id \in DOMAIN @ THEN @[s.id] ELSE {}) \cup {p}),
                             !.workers[p] = [ IdleWorker EXCEPT
                                                !.pc = IF s.rss THEN "rssFetch" ELSE "pageFetch" ] ]
        IN  UpdateProgress(m1, s.id, [ progress |-> 10 ])
  IN  With(machine, Statements)

\* batch.map(async source => ...): the workers of the group start in list order
RECURSIVE BeginWorkers(_, _, _)
BeginWorkers(m, p, last) ==
  IF p > last THEN m ELSE BeginWorkers(BeginCrawlSource(m, p), p + 1, last)

\* a loop that starts every remaining source at once
BeginGroupUnbounded(machine) ==
  LET Statements(m) ==
        IF m.groupStart < Len(m.sources)
          THEN BeginWorkers([ m EXCEPT !.orch = "group" ], m.groupStart + 1, Len(m.sources))
          ELSE FinishBatch(m)
  IN  With(machine, Statements)

\* one turn of the for loop of crawlAllSources: the slice, the workers, and
\* past the end of the list the sort and the return
BeginGroup(machine) ==
  LET Statements(m) ==
        IF m.groupStart < Len(m.sources)
          THEN BeginWorkers([ m EXCEPT !.orch = "group" ], m.groupStart + 1,
                            Min(m.groupStart + batchSize, Len(m.sources)))
          ELSE FinishBatch(m)
  IN  With(machine, Statements)

----------------------------------------------------------------------------
(* The steps. *)

Machine(actor, beh) ==
  [ isRunning |-> isRunning, progressCallbacks |-> progressCallbacks,
    currentProgress |-> currentProgress, crawledArticles |-> crawledArticles,
    sources |-> sourcesToCrawl, groupStart |-> groupStart, orch |-> orch,
    workers |-> workers, promise |-> promise, writers |-> writers,
    unsubscribed |-> unsubscribed, emits |-> << >>, actor |-> actor, beh |-> beh ]

Commit(machine, name, err) ==
  \E m \in {machine} :
    /\ isRunning' = m.isRunning
    /\ progressCallbacks' = m.progressCallbacks
    /\ currentProgress' = m.currentProgress
    /\ crawledArticles' = m.crawledArticles
    /\ sourcesToCrawl' = m.sources
    /\ groupStart' = m.groupStart
    /\ orch' = m.orch
    /\ workers' = m.workers
    /\ promise' = m.promise
    /\ writers' = m.writers
    /\ emits' = m.emits
    /\ unsubscribed' = m.unsubscribed
    /\ op' = name
    /\ thrown' = err
    /\ UNCHANGED services

\* the ids of a source list
IdsOf(sources) == { sources[p].id : p \in 1..Len(sources) }

\* a start of batch that forgets currentProgress.clear()
StartBatchNoClear(sources, beh) ==
  LET m0 == [ Machine(None, beh) EXCEPT
                !.isRunning = TRUE,
                !.crawledArticles = << >>,
                !.sources = sources,
                !.currentProgress =
                   [ id \in (DOMAIN currentProgress) \cup IdsOf(sources) |->
                       IF id \in IdsOf(sources) THEN NewProgress("pending")
                                                ELSE currentProgress[id] ],
                !.writers = [ id \in (DOMAIN currentProgress) \cup IdsOf(sources) |-> {} ],
                !.workers = [ p \in 1..Len(sources) |-> IdleWorker ],
                !.groupStart = 0,
                !.promise = "pending" ]
  IN  /\ Commit(BeginGroup(EmitProgress(m0, None)), "crawlAllSources", NoError)
      /\ stopRequested' = FALSE
      /\ UNCHANGED crawlInterval

\* crawlAllSources past its guard, up to its first suspension: the reset, one
\* pending entry per source, their publish, and the first group; with an empty
\* list it runs to its end
StartBatch(sources, beh) ==
  LET m0 == [ Machine(None, beh) EXCEPT
                !.isRunning = TRUE,
                !.crawledArticles = << >>,
                !.sources = sources,
                !.currentProgress = [ id \in IdsOf(sources) |-> NewProgress("pending") ],
                !.writers = [ id \in IdsOf(sources) |-> {} ],
                !.workers = [ p \in 1..Len(sources) |-> IdleWorker ],
                !.groupStart = 0,
                !.promise = "pending" ]
  IN  /\ Commit(BeginGroup(EmitProgress(m0, None)), "crawlAllSources", NoError)
      /\ stopRequested' = FALSE
      /\ UNCHANGED crawlInterval

\* throw new Error('Crawler is already running')
RejectCall(beh) ==
  /\ Commit(Machine(None, beh), "crawlAllSources", AlreadyRunning)
  /\ UNCHANGED << crawlInterval, stopRequested >>

\* what a progress callback throws when it fails
SubscriberError == "subscriber failed"

\* crawlAllSources past its guard when the callback thrower throws as it is
\* handed the initial snapshot: forEach stops there, and the exception leaves
\* crawlAllSources, whose try block has not been entered yet
StartBatchSubscriberThrows(sources, thrower) ==
  LET m0 == [ Machine(None, Passive) EXCEPT
                !.isRunning = TRUE,
                !.crawledArticles = << >>,
                !.sources = sources,
                !.currentProgress = [ id \in IdsOf(sources) |-> NewProgress("pending") ],
                !.writers = [ id \in IdsOf(sources) |-> {} ],
                !.workers = [ p \in 1..Len(sources) |-> IdleWorker ],
                !.groupStart = 0,
                !.promise = "rejected" ]
      e  == [ snapshot    |-> m0.currentProgress,
              articles    |-> m0.crawledArticles,
              running     |-> m0.isRunning,
              subscribers |-> m0.progressCallbacks,
              unsubscribedBefore |-> m0.unsubscribed,
              calls       |-> SubSeq(m0.progressCallbacks, 1,
                                     IndexOf(m0.progressCallbacks, thrower)),
              beh         |-> m0.beh ]
  IN  /\ thrower \in Range(progressCallbacks)
      /\ Commit([ m0 EXCEPT !.emits = << e >> ], "crawlAllSources", SubscriberError)
      /\ stopRequested' = FALSE
      /\ UNCHANGED crawlInterval

\* crawlAllSources(sources) with a callback that throws on the initial snapshot
CrawlAllSourcesSubscriberThrows(sources, thrower) ==
  IF isRunning THEN RejectCall(Passive) ELSE StartBatchSubscriberThrows(sources, thrower)

\* a crawlAllSources without the isRunning guard
CrawlAllSourcesUnguarded(sources, beh) == StartBatch(sources, beh)

\* a crawlAllSources that does not clear the progress map
CrawlAllSourcesNoClear(sources, beh) ==
  IF isRunning THEN RejectCall(beh) ELSE StartBatchNoClear(sources, beh)

\* crawlAllSources(sources)
CrawlAllSources(sources, beh) ==
  IF isRunning THEN RejectCall(beh) ELSE StartBatch(sources, beh)

Positions == 1..Len(sourcesToCrawl)

\* a fetchRSSFeed that returns every item of the feed
RssFeedReturnUncut(p, ok, beh) ==
  /\ workers[p].pc = "rssFetch"
  /\ LET m0 == Machine(p, beh)
         id == sourcesToCrawl[p].id
         m1 == [ m0 EXCEPT !.workers[p].found = IF ok THEN Len(FeedItems(id)) ELSE 0,
                           !.workers[p].allFailed = @ /\ ~ok ]
         m2 == UpdateProgress(m1, id,
                              [ progress |-> 30, articlesFound |-> m1.workers[p].found ])
     IN  Commit(FeedLoop(m2, p), "rssFeedReturn", NoError)
  /\ UNCHANGED << crawlInterval, stopRequested >>

\* fetchRSSFeed returns: the items of the feed cut to the cap, or [] when the
\* request failed; then the feed loop up to its first suspension
RssFeedReturn(p, ok, beh) ==
  /\ workers[p].pc = "rssFetch"
  /\ LET m0 == Machine(p, beh)
         id == sourcesToCrawl[p].id
         m1 == [ m0 EXCEPT !.workers[p].found =
                              IF ok THEN Min(Len(FeedItems(id)), maxArticlesPerSource) ELSE 0,
                           !.workers[p].allFailed = @ /\ ~ok ]
         m2 == UpdateProgress(m1, id,
                              [ progress |-> 30, articlesFound |-> m1.workers[p].found ])
     IN  Commit(FeedLoop(m2, p), "rssFeedReturn", NoError)
  /\ UNCHANGED << crawlInterval, stopRequested >>

\* the fetch of an item's full page returns or fails; either way the article
\* is pushed
ItemFetchReturn(p, ok, beh) ==
  /\ workers[p].pc = "itemFetch"
  /\ LET m0 == Machine(p, beh)
         m1 == [ m0 EXCEPT !.workers[p].allFailed = @ /\ ~ok ]
     IN  Commit(PushFeedArticle(m1, p), "itemFetchReturn", NoError)
  /\ UNCHANGED << crawlInterval, stopRequested >>

\* the delay after an article ends: the next turn of the loop
DelayDone(p, beh) ==
  /\ workers[p].pc = "delay"
  /\ LET m0 == Machine(p, beh)
         m1 == [ m0 EXCEPT !.workers[p].i = @ + 1 ]
     IN  IF sourcesToCrawl[p].rss
           THEN Commit(FeedLoop(m1, p), "delayDone", NoError)
           ELSE Commit(LinkLoop(m1, p), "delayDone", NoError)
  /\ UNCHANGED << crawlInterval, stopRequested >>

\* fetchWithProxy(source.baseUrl) returns the page of links, or throws err
PageFetchReturn(p, ok, err, beh) ==
  /\ workers[p].pc = "pageFetch"
  /\ LET m0 == Machine(p, beh)
         id == sourcesToCrawl[p].id
         m1 == [ m0 EXCEPT !.workers[p].found =
                              Min(Len(PageLinks(id)), maxArticlesPerSource),
                           !.workers[p].allFailed = FALSE ]
         m2 == UpdateProgress(m1, id, [ progress |-> 30 ])
         m3 == UpdateProgress(m2, id, [ progress |-> 40,
                                        articlesFound |-> m1.workers[p].found ])
     IN  IF ok THEN Commit(LinkLoop(m3, p), "pageFetchReturn", NoError)
               ELSE Commit(FailSource(m0, p, err), "pageFetchReturn", NoError)
  /\ UNCHANGED << crawlInterval, stopRequested >>

\* fetchWithProxy(links[i]) returns or throws; an article is pushed when the
\* page gives a title and more than 100 characters of content
LinkFetchReturn(p, ok, beh) ==
  /\ workers[p].pc = "linkFetch"
  /\ LET m0 == Machine(p, beh)
         w  == workers[p]
         id == sourcesToCrawl[p].id
         a  == [ src |-> p, idx |-> w.i, publishDate |-> Clock(m0), ord |-> 0 ]
         m1 == [ m0 EXCEPT !.workers[p].allFailed = FALSE,
                           !.workers[p].articles =
                              IF PageLinks(id)[w.i + 1] THEN Append(@, a) ELSE @,
                           !.workers[p].pc = "delay" ]
         m2 == UpdateProgress(m1, id,
                              [ progress |-> 40 + (w.i * 50) \div w.found,
                                articlesProcessed |-> w.i + 1 ])
         m3 == [ m0 EXCEPT !.workers[p].i = @ + 1 ]
     IN  IF ok THEN Commit(m2, "linkFetchReturn", NoError)
               ELSE Commit(LinkLoop(m3, p), "linkFetchReturn", NoError)
  /\ UNCHANGED << crawlInterval, stopRequested >>

\* the delay between two groups ends: the next turn of the for loop
GroupDelayDone(beh) ==
  /\ orch = "groupDelay"
  /\ LET m0 == Machine(None, beh)
         m1 == [ m0 EXCEPT !.groupStart = @ + batchSize ]
     IN  Commit(BeginGroup(m1), "groupDelayDone", NoError)
  /\ UNCHANGED << crawlInterval, stopRequested >>

WorkerStep(beh) ==
  \E p \in Positions :
    \/ \E ok \in BOOLEAN : RssFeedReturn(p, ok, beh)
    \/ \E ok \in BOOLEAN : ItemFetchReturn(p, ok, beh)
    \/ DelayDone(p, beh)
    \/ \E ok \in BOOLEAN, err \in FetchErrors : PageFetchReturn(p, ok, err, beh)
    \/ \E ok \in BOOLEAN : LinkFetchReturn(p, ok, beh)

\* a step that changes no field of the crawler
Skip(name) ==
  /\ Commit(Machine(None, Passive), name, NoError)
  /\ UNCHANGED << crawlInterval, stopRequested >>

\* subscribeToProgress(callback): Set.add keeps a callback that is already there
\* in its place
SubscribeToProgress(h) ==
  /\ Commit([ Machine(None, Passive) EXCEPT
               !.progressCallbacks = IF h \in Range(@) THEN @ ELSE Append(@, h),
               !.unsubscribed = @ \ {h} ],
            "subscribeToProgress", NoError)
  /\ UNCHANGED << crawlInterval, stopRequested >>

\* the function subscribeToProgress returned, called between two steps
Unsubscribe(h) ==
  /\ h \in Range(progressCallbacks)
  /\ Commit([ Machine(None, Passive) EXCEPT
               !.progressCallbacks = RemoveAt(@, IndexOf(@, h)),
               !.unsubscribed = @ \cup {h} ],
            "unsubscribe", NoError)
  /\ UNCHANGED << crawlInterval, stopRequested >>

\* stopPeriodicCrawling()
StopPeriodicCrawling ==
  /\ Commit(Machine(None, Passive), "stopPeriodicCrawling", NoError)
  /\ crawlInterval' = FALSE
  /\ UNCHANGED stopRequested

\* startPeriodicCrawling(): the old timer is cleared and a new one set
StartPeriodicCrawling ==
  /\ Commit(Machine(None, Passive), "startPeriodicCrawling", NoError)
  /\ crawlInterval' = TRUE
  /\ UNCHANGED stopRequested

\* the callback of the periodic timer, had it not read isRunning
TimerTickUnguarded ==
  /\ crawlInterval
  /\ CrawlAllSources(NEWS_SOURCES, Passive)

\* the callback of the periodic timer
TimerTick ==
  /\ crawlInterval
  /\ IF ~isRunning THEN CrawlAllSources(NEWS_SOURCES, Passive) ELSE Skip("timerTick")

\* startCrawling of the hook useNewsCrawler
HookStartCrawling ==
  IF isRunning THEN Skip("startCrawling") ELSE CrawlAllSources(NEWS_SOURCES, Passive)

\* stopCrawling of the hook useNewsCrawler: it stops the periodic timer (and
\* clears the hook's own loading flags)
HookStopCrawling ==
  /\ Commit(Machine(None, Passive), "stopCrawling", NoError)
  /\ crawlInterval' = FALSE
  /\ stopRequested' = (stopRequested \/ isRunning)

----------------------------------------------------------------------------
(* Text, URLs and pages, as the article scrapers see them. *)

\* longest list of paragraphs (and of elements under one selector) of a page
MaxParagraphs == 2
\* longest keyword list of a page
MaxKeywords == 2
\* the days on which an extraction may run are 1..MaxDay
MaxDay == 2

Days == 1..MaxDay

SeqsUpTo(S, n) == UNION { [1..k -> S] : k \in 0..n }

\* A host name is a string of characters, so that the scrapers' tests on it
\* (===, endsWith, includes) are the tests JavaScript makes.
toLowerCase(s) ==
  [ k \in 1..Len(s) |->
      CASE s[k] = "B" -> "b" [] s[k] = "C" -> "c" [] s[k] = "N" -> "n"
        [] s[k] = "T" -> "t" [] s[k] = "W" -> "w" [] s[k] = "Y" -> "y" [] OTHER -> s[k] ]

endsWith(s, suffix) ==
  /\ Len(suffix) <= Len(s)
  /\ SubSeq(s, Len(s) - Len(suffix) + 1, Len(s)) = suffix

includes(s, sub) ==
  \E k \in 0..(Len(s) - Len(sub)) : SubSeq(s, k + 1, k + Len(sub)) = sub

\* "bbc.com", "bbc.co.uk", "nytimes.com", "cnn.com" and the other literals the
\* routing compares host names with
bbc_com == << "b", "b", "c", ".", "c", "o", "m" >>
bbc_co_uk == << "b", "b", "c", ".", "c", "o", ".", "u", "k" >>
nytimes_com == << "n", "y", "t", "i", "m", "e", "s", ".", "c", "o", "m" >>
www_nytimes_com == << "w", "w", "w", ".", "n", "y", "t", "i", "m", "e", "s", ".", "c", "o", "m" >>
dot_nytimes_com == << ".", "n", "y", "t", "i", "m", "e", "s", ".", "c", "o", "m" >>
cnn_com == << "c", "n", "n", ".", "c", "o", "m" >>
www_cnn_com == << "w", "w", "w", ".", "c", "n", "n", ".", "c", "o", "m" >>
edition_cnn_com == << "e", "d", "i", "t", "i", "o", "n", ".", "c", "n", "n", ".", "c", "o", "m" >>
dot_cnn_com == << ".", "c", "n", "n", ".", "c", "o", "m" >>

\* the host names of the URLs handed to the fetcher, as typed
Hosts ==
  { bbc_com,
    << "w", "w", "w", ".", "b", "b", "c", ".", "c", "o", ".", "u", "k" >>,
    << "n", "o", "t", "b", "b", "c", ".", "c", "o", "m" >>,
    nytimes_com,
    << "W", "W", "W", ".", "N", "Y", "T", "i", "m", "e", "s", ".", "c", "o", "m" >>,
    << "n", "o", "t", "n", "y", "t", "i", "m", "e", "s", ".", "c", "o", "m" >>,
    cnn_com,
    edition_cnn_com,
    << "e", "x", "a", "m", "p", "l", "e", ".", "o", "r", "g" >> }

Protocols == { "https:", "http:", "ftp:" }

\* the first segment of the path of a URL ("" for the path "/")
PathSegments == { "", "world" }

\* a string new URL() does not accept
MalformedUrl == [ wellFormed |-> FALSE, protocol |-> "", host |-> << >>, segment |-> "" ]

Urls ==
  { MalformedUrl } \cup
  [ wellFormed : { TRUE }, protocol : Protocols, host : Hosts, segment : PathSegments ]

\* new URL(url).hostname: the parser lower-cases the host of an http(s) URL
hostnameOf(url) == toLowerCase(url.host)

\* A text of a page is kept by its length, a date text by what Date makes of
\* it: absent, the text of a day, or words no Date can be made of.
TextLengths == { 40, 60 }

NoText == [ kind |-> "", day |-> 0 ]
IsoText(d) == [ kind |-> "iso", day |-> d ]
Words == [ kind |-> "words", day |-> 0 ]
LocaleText(d) == [ kind |-> "locale", day |-> d ]
InvalidDateText == [ kind |-> "Invalid Date", day |-> 0 ]

\* new Date(text).getTime(), NaN being InvalidDate
DateOf(text) == IF text.kind \in { "iso", "locale" } THEN text.day ELSE InvalidDate

\* Date.prototype.toLocaleDateString: it does not throw for an Invalid Date, it
\* returns the string "Invalid Date"
toLocaleDateString(d) == IF d = InvalidDate THEN InvalidDateText ELSE LocaleText(d)

\* Date.prototype.toISOString of a valid date
toISOString(d) == IsoText(d)

Keywords == { "World", "Climate" }

\* The body of a page: per class selector that matches, the texts of the
\* elements it matches; the texts of the <p> elements (none of them carries one
\* of the advertising words the scrapers filter on); the articleBody and
\* description of each JSON-LD block; per <article> element, its sentences.
Bodies ==
  [ classBlocks : { << >>, << << 60 >> >>, << << 60 >>, << 60, 60 >> >> },
    paragraphs : SeqsUpTo(TextLengths, MaxParagraphs),
    jsonLd : { << >>, << [ articleBody |-> 40, description |-> 0 ] >>,
               << [ articleBody |-> 0, description |-> 150 ] >>,
               << [ articleBody |-> 150, description |-> 0 ] >> },
    articleTag : { << >>, << << >> >>, << << 30 >> >> } ]

\* The metadata of a page: headline, date, keyword list (the topic links of a
\* BBC page), section.
Metas ==
  [ headline : { "", "Headline" },
    date : { NoText, IsoText(1), Words },
    keywords : SeqsUpTo(Keywords, MaxKeywords),
    section : { "", "World" } ]

PlainBody ==
  [ classBlocks |-> << << 60, 60 >> >>, paragraphs |-> << >>, jsonLd |-> << >>,
    articleTag |-> << >> ]

PlainMeta == [ headline |-> "Headline", date |-> NoText, keywords |-> << >>, section |-> "" ]

Page(body, meta) ==
  [ classBlocks |-> body.classBlocks, paragraphs |-> body.paragraphs,
    jsonLd |-> body.jsonLd, articleTag |-> body.articleTag,
    headline |-> meta.headline, date |-> meta.date, keywords |-> meta.keywords,
    section |-> meta.section ]

\* The pages of the model: every body under one plain metadata, and every
\* metadata over one plain body.
Markup ==
  { Page(body, PlainMeta) : body \in Bodies } \cup { Page(PlainBody, meta) : meta \in Metas }

----------------------------------------------------------------------------
(* The page parsers: parseNYTHtml, parseCNNHtml, extractBBCContent and the *)
(* generic extractTextFromHTML.  A body text is kept as the strategy that  *)
(* supplied it and its length.                                             *)

RECURSIVE Sum(_)
Sum(s) == IF s = << >> THEN 0 ELSE Head(s) + Sum(Tail(s))

\* texts.join(separator).length
joinedLength(texts, separator) ==
  IF texts = << >> THEN 0 ELSE Sum(texts) + separator * (Len(texts) - 1)

\* s.slice(0, n)
slice(s, n) == SubSeq(s, 1, Min(n, Len(s)))

RECURSIVE Flatten(_)
Flatten(texts) == IF texts = << >> THEN << >> ELSE Head(texts) \o Flatten(Tail(texts))

First(S) == CHOOSE k \in S : \A j \in S : k <= j

NoContent == [ by |-> "", len |-> 0 ]

LongerThan50(text) == text > 50
LongerThan30(text) == text > 30
LongerThan20(text) == text > 20

\* the loop over the class selectors of the NYT and CNN parsers: the first
\* selector whose matches, joined by ' ', are over 100 characters long
classContent(html) ==
  LET long == { k \in 1..Len(html.classBlocks) :
                  joinedLength(html.classBlocks[k], 1) > 100 }
  IN  IF long = {} THEN NoContent
      ELSE [ by |-> "class", len |-> joinedLength(html.classBlocks[First(long)], 1) ]

\* the paragraph fallback: the first `most` paragraphs over the parser's
\* length, joined by joinedWith characters, whatever the length of the result
paragraphContent(paragraphs, most, joinedWith) ==
  [ by |-> "paragraphs", len |-> joinedLength(slice(paragraphs, most), joinedWith) ]

\* the body of parseNYTHtml
nytContent(html) ==
  LET bySelector == classContent(html)
      paragraphs == SelectSeq(html.paragraphs, LongerThan50)
      byParagraph ==
        IF bySelector.len < 100 /\ Len(paragraphs) > 0
        THEN paragraphContent(paragraphs, 15, 1) ELSE bySelector
      found == { k \in 1..Len(html.jsonLd) :
                   html.jsonLd[k].articleBody # 0 \/ html.jsonLd[k].description # 0 }
      data == html.jsonLd[First(found)]
      byJsonLd ==
        IF byParagraph.len < 50 /\ found # {}
        THEN [ by |-> "jsonLd",
               len |-> IF data.articleBody # 0 THEN data.articleBody ELSE data.description ]
        ELSE byParagraph
  IN  IF byJsonLd.len = 0 THEN [ by |-> "placeholder", len |-> 330 ] ELSE byJsonLd

\* the body of parseCNNHtml (a JSON-LD block of the model has no @graph)
cnnContent(html) ==
  LET bySelector == classContent(html)
      paragraphs == SelectSeq(html.paragraphs, LongerThan30)
      byParagraph ==
        IF bySelector.len < 100 /\ Len(paragraphs) > 0
        THEN paragraphContent(paragraphs, 20, 1) ELSE bySelector
      found == { k \in 1..Len(html.jsonLd) :
                   html.jsonLd[k].articleBody > 100 \/ html.jsonLd[k].description > 100 }
      data == html.jsonLd[First(found)]
      byJsonLd ==
        IF byParagraph.len < 100 /\ found # {}
        THEN [ by |-> "jsonLd",
               len |-> IF data.articleBody > 100 THEN data.articleBody ELSE data.description ]
        ELSE byParagraph
      sentences == SelectSeq(Flatten(html.articleTag), LongerThan20)
      byArticleTag ==
        IF byJsonLd.len < 50 /\ Len(html.articleTag) > 0
        THEN [ by |-> "articleTag", len |-> joinedLength(slice(sentences, 10), 2) + 1 ]
        ELSE byJsonLd
  IN  IF byArticleTag.len = 0 THEN [ by |-> "placeholder", len |-> 500 ] ELSE byArticleTag

\* the body of extractBBCContent: the first selector with an element over 50
\* characters, its such elements joined by '\n\n'; then the first 10 paragraphs
\* over 30 characters; then the placeholder sentence, 53 characters long
bbcContent(html) ==
  LET parts(k) == SelectSeq(html.classBlocks[k], LongerThan50)
      substantial == { k \in 1..Len(html.classBlocks) : Len(parts(k)) > 0 }
      bySelector ==
        IF substantial = {} THEN NoContent
        ELSE [ by |-> "class", len |-> joinedLength(parts(First(substantial)), 2) ]
      byParagraph ==
        IF bySelector.len = 0
        THEN paragraphContent(SelectSeq(html.paragraphs, LongerThan30), 10, 2)
        ELSE bySelector
  IN  IF byParagraph.len = 0 THEN [ by |-> "placeholder", len |-> 53 ] ELSE byParagraph

\* the text extractTextFromHTML returns: the text of the first element one of
\* its selectors matches ('article' comes first, then the class patterns), or
\* of the whole body when that text is empty
genericContent(html) ==
  LET bySelector ==
        IF Len(html.articleTag) > 0
        THEN [ by |-> "article", len |-> joinedLength(html.articleTag[1], 2) ]
        ELSE IF Len(html.classBlocks) > 0 /\ Len(html.classBlocks[1]) > 0
             THEN [ by |-> "class", len |-> html.classBlocks[1][1] ]
             ELSE NoContent
  IN  IF bySelector.len = 0
      THEN [ by |-> "body",
             len |-> joinedLength(Flatten(html.classBlocks) \o html.paragraphs, 1) ]
      ELSE bySelector

\* publishDate of parseNYTHtml: the date meta or now, through
\* new Date(...).toLocaleDateString(), which does not throw
nytPublishDate(html, now) ==
  LET publishDate == IF html.date # NoText THEN html.date ELSE toISOString(now)
  IN  toLocaleDateString(DateOf(publishDate))

\* publishDate of parseCNNHtml: formatted like the NYT one unless it is the
\* ISO text of now
cnnPublishDate(html, now) ==
  LET publishDate == IF html.date # NoText THEN html.date ELSE toISOString(now)
  IN  IF publishDate # NoText /\ publishDate # toISOString(now)
      THEN toLocaleDateString(DateOf(publishDate))
      ELSE toLocaleDateString(now)

\* publishDate of extractBBCContent: the date element's text through
\* toLocaleDateString, or now when the page has none
bbcPublishDate(html, now) ==
  IF html.date # NoText THEN toLocaleDateString(DateOf(html.date))
  ELSE toLocaleDateString(now)

\* publishDate of the generic path of fetchArticle
genericPublishDate(html, now) ==
  IF html.date # NoText THEN toLocaleDateString(DateOf(html.date))
  ELSE toLocaleDateString(now)

capitalize(segment) == IF segment = "world" THEN "World" ELSE segment

\* extractSectionFromUrl of the NYT scraper: 'world' is one of its known
\* sections
extractSectionFromUrl(url) == IF url.segment = "world" THEN capitalize(url.segment) ELSE "News"

nytSection(html, url) == IF html.section # "" THEN html.section ELSE extractSectionFromUrl(url)

\* the section parseCNNHtml reads from the path ('' for the path "/")
cnnSection(url) == IF url.segment # "" THEN capitalize(url.segment) ELSE ""

\* the category extractBBCContent reads from the path
bbcCategory(url) == IF url.segment # "" THEN capitalize(url.segment) ELSE "News"

\* tags of the NYT and CNN parsers: the keyword list as it is, and the section
\* put in front unless the list includes it
keywordTags(keywords, section) ==
  IF section # "" /\ section \notin Range(keywords) THEN << section >> \o keywords
  ELSE keywords

\* tags of extractBBCContent: each topic pushed unless tags includes it
RECURSIVE topicTags(_, _)
topicTags(tags, topics) ==
  IF topics = << >> THEN tags
  ELSE topicTags(IF Head(topics) \in Range(tags) THEN tags ELSE Append(tags, Head(topics)),
                 Tail(topics))

parseNYTHtml(html, url, now) ==
  [ headline |-> IF html.headline # "" THEN html.headline ELSE "NY Times Article",
    content |-> nytContent(html),
    publishDate |-> nytPublishDate(html, now),
    section |-> nytSection(html, url),
    tags |-> keywordTags(html.keywords, nytSection(html, url)),
    url |-> url ]

parseCNNHtml(html, url, now) ==
  [ headline |-> IF html.headline # "" THEN html.headline ELSE "CNN Article",
    content |-> cnnContent(html),
    publishDate |-> cnnPublishDate(html, now),
    section |-> cnnSection(url),
    tags |-> keywordTags(html.keywords, cnnSection(url)),
    url |-> url ]

extractBBCContent(html, url, now) ==
  [ headline |-> IF html.headline # "" THEN html.headline ELSE "BBC News Article",
    content |-> bbcContent(html),
    publishDate |-> bbcPublishDate(html, now),
    section |-> bbcCategory(url),
    tags |-> topicTags(<< >>, html.keywords),
    url |-> url ]

extractTextFromHTML(html) ==
  [ title |-> IF html.headline # "" THEN html.headline ELSE "Untitled Article",
    content |-> genericContent(html) ]

----------------------------------------------------------------------------
(* URLFetcher.fetchArticle and the three site scrapers it delegates to.    *)
(* One action is one run of the extraction between two suspensions: the    *)
(* call up to its first await, the return of a request, the firing of one  *)
(* of the scrapers' setTimeout delays.  The progress callback returns      *)
(* normally.                                                               *)

\* what a failed axios request throws
RequestErrors == { "Network Error", "timeout of 15000ms exceeded" }

NoArticle ==
  [ headline |-> "", content |-> NoContent, publishDate |-> NoText, section |-> "",
    tags |-> << >>, url |-> MalformedUrl ]

NoArticleData ==
  [ title |-> "", content |-> NoContent, publishDate |-> NoText, source |-> "",
    section |-> "", url |-> MalformedUrl ]

\* an empty document
NoPage ==
  Page([ classBlocks |-> << >>, paragraphs |-> << >>, jsonLd |-> << >>, articleTag |-> << >> ],
       [ headline |-> "", date |-> NoText, keywords |-> << >>, section |-> "" ])

IdleFetcher ==
  [ pc |-> "idle", url |-> MalformedUrl, route |-> "", progress |-> << >>,
    requests |-> << >>, html |-> NoPage, article |-> NoArticle,
    settled |-> "", data |-> NoArticleData, error |-> NoError,
    fallback |-> [ settled |-> "", title |-> "", content |-> NoContent ] ]

\* emitProgress(stage, progress, message) of the fetcher, and of a scraper whose
\* callback forwards to it
emitStage(f, stage, progress) ==
  [ f EXCEPT !.progress = Append(@, [ stage |-> stage, progress |-> progress ]) ]

\* axios.get: directly, or through the CORS proxy
get(f, via, pc) ==
  [ f EXCEPT !.requests = Append(@, [ via |-> via, outcome |-> "pending" ]), !.pc = pc ]

answered(f, outcome) == [ f EXCEPT !.requests[Len(f.requests)].outcome = outcome ]

\* the catch of fetchArticleWithFallback: the placeholder article, made of
\* new URL(url), which throws again on a string that is not a URL; of the
\* record the title and the content are kept (268 characters and the URL)
fallbackArticle(url) ==
  IF url.wellFormed
  THEN [ settled |-> "resolved", title |-> "Article from hostname",
         content |-> [ by |-> "placeholder", len |-> 268 ] ]
  ELSE [ settled |-> "rejected", title |-> "", content |-> NoContent ]

\* the catch of fetchArticle: every error is thrown again under a new message;
\* fetchArticleWithFallback, when it is the caller, catches it
rejectFetch(f, message) ==
  [ f EXCEPT !.pc = "idle", !.settled = "rejected", !.html = NoPage,
             !.fallback = fallbackArticle(f.url),
             !.error = IF message \in RequestErrors
                       THEN "Network error: Unable to fetch the article. Please check your internet connection and try again."
                       ELSE "Failed to fetch article: " \o message ]

resolveFetch(f, data) ==
  [ f EXCEPT !.pc = "idle", !.settled = "resolved", !.html = NoPage, !.data = data,
             !.fallback = [ settled |-> "resolved", title |-> data.title,
                            content |-> data.content ] ]

\* what fetchArticle returns of a scraper's article
articleData(article, site) ==
  [ title |-> article.headline, content |-> article.content,
    publishDate |-> article.publishDate, source |-> site,
    section |-> article.section, url |-> article.url ]

\* the catch of BBCNewsScraper.scrapeArticle: it emits nothing; a message with
\* 'timeout' or 'Network Error' in it is replaced
bbcFailed(f, message) ==
  rejectFetch(f, IF message = "Network Error"
                 THEN "Network error: Unable to connect to BBC News. Please check your internet connection."
                 ELSE IF message \in RequestErrors
                      THEN "Timeout: BBC News is taking too long to respond. Please try again."
                      ELSE message)

\* the catch of extractNYTContent and of extractCNNContent: an 'error' event,
\* and the error thrown on
scraperFailed(f, message) == rejectFetch(emitStage(f, "error", 0), message)

\* the test of fetchArticle and of isBBCUrl for a BBC URL
isBBCUrl(hostname) == includes(hostname, bbc_com) \/ includes(hostname, bbc_co_uk)

\* the test of fetchArticle and of isValidNYTUrl
isValidNYTUrl(hostname) ==
  hostname = www_nytimes_com \/ hostname = nytimes_com \/ endsWith(hostname, dot_nytimes_com)

\* the test of fetchArticle and of isValidCNNUrl
isValidCNNUrl(hostname) ==
  \/ hostname = www_cnn_com
  \/ hostname = cnn_com
  \/ hostname = edition_cnn_com
  \/ endsWith(hostname, dot_cnn_com)

\* which extractor fetchArticle hands a host name to
routeOf(hostname) ==
  IF isBBCUrl(hostname) THEN "bbc"
  ELSE IF isValidNYTUrl(hostname) THEN "nyt"
       ELSE IF isValidCNNUrl(hostname) THEN "cnn" ELSE "generic"

\* newsSites.some(site => hostname.includes(site)), for the sites of the list a
\* host of the model can include
isKnownNewsSite(hostname) == includes(hostname, cnn_com) \/ includes(hostname, nytimes_com)

\* a validation that reports progress before it throws
invalidUrlAfterProgress(f, message) == rejectFetch(emitStage(f, "validation", 10), message)

\* new URL(url) or the test of the protocol throws, inside the try of
\* fetchArticle and before its first emitProgress
invalidUrl(f, message) == rejectFetch(f, message)

\* fetchArticle(url) up to its first await
beginFetch(url) ==
  LET f0 == [ IdleFetcher EXCEPT !.url = url ]
      hostname == toLowerCase(hostnameOf(url))
      validated == emitStage([ f0 EXCEPT !.route = routeOf(hostname) ], "validation", 10)
      detected == emitStage(validated, "detecting", 15)
  IN  IF ~url.wellFormed THEN invalidUrl(f0, "Invalid URL")
      ELSE IF url.protocol \notin { "http:", "https:" }
           THEN invalidUrl(f0, "Invalid URL protocol. Only HTTP and HTTPS are supported.")
      ELSE CASE validated.route = "bbc" ->
                  [ emitStage(detected, "validation", 5) EXCEPT !.pc = "bbcDelay150" ]
             [] validated.route = "nyt" ->
                  [ emitStage(emitStage(detected, "validation", 5), "connecting", 15)
                      EXCEPT !.pc = "nytDelay150" ]
             [] validated.route = "cnn" ->
                  get(emitStage(emitStage(detected, "validation", 10), "fetching", 30),
                      "proxy", "cnnFetch")
             [] OTHER -> get(emitStage(validated, "fetching", 25), "proxy", "genericFetch")

\* the BBC scraper after its 200 ms delay: parse, then refuse a body under 100
\* characters
bbcParse(f, now) ==
  LET article == extractBBCContent(f.html, f.url, now)
      validating == emitStage(emitStage(f, "parsing", 70), "validating", 85)
  IN  IF article.content.len < 100
      THEN bbcFailed(validating, "Unable to extract sufficient content from this BBC News article. The article may be behind a paywall or use a different layout.")
      ELSE [ emitStage(validating, "finalizing", 95) EXCEPT
               !.article = article, !.html = NoPage, !.pc = "bbcDelay100" ]

\* the NYT scraper after its 200 ms delay, on the direct and on the proxied path
nytParse(f, now, progress, pc) ==
  [ emitStage(emitStage(f, "parsing", progress), "finalizing", 95) EXCEPT
      !.article = parseNYTHtml(f.html, f.url, now), !.html = NoPage, !.pc = pc ]

\* the end of a site scraper and the return of fetchArticle
complete(f, site) == resolveFetch(emitStage(f, "complete", 100), articleData(f.article, site))

\* the generic path once the proxy has answered with a page
genericExtract(f, html, now) ==
  LET extracted == extractTextFromHTML(html)
      extracting == emitStage(f, "extracting", 75)
      warning == IF isKnownNewsSite(toLowerCase(hostnameOf(f.url))) THEN 0 ELSE 57
  IN  IF extracted.content.len < 100
      THEN rejectFetch(extracting, "Article content is too short or could not be extracted")
      ELSE resolveFetch(emitStage(extracting, "complete", 100),
             [ title |-> extracted.title,
               content |-> [ extracted.content EXCEPT !.len = Min(@, 10000) + warning ],
               publishDate |-> genericPublishDate(html, now),
               source |-> "hostname", section |-> "", url |-> f.url ])

\* a timer of a scraper fires
timerFired(f, now) ==
  CASE f.pc = "bbcDelay150" ->
         get(emitStage(emitStage(f, "connecting", 15), "fetching", 25), "proxy", "bbcFetch")
    [] f.pc = "bbcDelay200" -> bbcParse(f, now)
    [] f.pc = "bbcDelay100" -> complete(f, "BBC News")
    [] f.pc = "nytDelay150" -> get(emitStage(f, "fetching", 25), "direct", "nytDirect")
    [] f.pc = "nytDelay200" -> nytParse(f, now, 70, "nytDelay100")
    [] f.pc = "nytProxyDelay200" -> nytParse(f, now, 75, "nytProxyDelay100")
    [] f.pc \in { "nytDelay100", "nytProxyDelay100" } -> complete(f, "New York Times")

\* an NYT scraper that asks the proxy too whatever the direct request returned
nytDirectReturnThenProxy(f, outcome, html) ==
  get(emitStage(f, "retrying", 35), "proxy", "nytProxy")

\* the direct request of the NYT scraper returns: with data the page is parsed;
\* without, or on an error, the scraper turns to the proxy
nytDirectReturn(f, outcome, html) ==
  IF outcome = "ok"
  THEN [ emitStage(f, "processing", 50) EXCEPT !.html = html, !.pc = "nytDelay200" ]
  ELSE get(emitStage(f, "retrying", 35), "proxy", "nytProxy")

\* a request returns: outcome is "ok" (html is the page), "empty" (no data or
\* no contents in the answer) or "failed" (error is what axios throws)
requestReturned(f0, outcome, html, error, now) ==
  LET f == answered(f0, outcome)
  IN  CASE f.pc = "bbcFetch" ->
             IF outcome = "failed" THEN bbcFailed(f, error)
             ELSE IF outcome = "empty"
                  THEN bbcFailed(f, "Failed to fetch article content from BBC News")
                  ELSE [ emitStage(f, "processing", 50) EXCEPT
                           !.html = html, !.pc = "bbcDelay200" ]
        [] f.pc = "nytDirect" -> nytDirectReturn(f, outcome, html)
        [] f.pc = "nytProxy" ->
             IF outcome = "failed" THEN scraperFailed(f, error)
             ELSE IF outcome = "empty"
                  THEN scraperFailed(f, "Failed to fetch article content via CORS proxy")
                  ELSE [ emitStage(f, "processing", 55) EXCEPT
                           !.html = html, !.pc = "nytProxyDelay200" ]
        [] f.pc = "cnnFetch" ->
             IF outcome = "failed" THEN scraperFailed(f, error)
             ELSE IF outcome = "empty"
                  THEN scraperFailed(f, "Failed to fetch article content via CORS proxy")
                  ELSE resolveFetch(
                         emitStage(emitStage(f, "parsing", 60), "complete", 100),
                         articleData(parseCNNHtml(html, f.url, now), "CNN"))
        [] f.pc = "genericFetch" ->
             IF outcome = "failed" THEN rejectFetch(f, error)
             ELSE IF outcome = "empty"
                  THEN rejectFetch(emitStage(f, "parsing", 50), "Failed to fetch article content")
                  ELSE genericExtract(emitStage(f, "parsing", 50), html, now)

\* The actions of the fetcher.  A new extraction starts when the one before it
\* has settled.
FetchArticle(url) ==
  /\ fetcher.pc = "idle"
  /\ fetcher' = beginFetch(url)
  /\ UNCHANGED << crawler, parser, analysis >>

FetcherTimer(now) ==
  /\ fetcher.pc \in { "bbcDelay150", "bbcDelay200", "bbcDelay100", "nytDelay150",
                      "nytDelay200", "nytDelay100", "nytProxyDelay200", "nytProxyDelay100" }
  /\ fetcher' = timerFired(fetcher, now)
  /\ UNCHANGED << crawler, parser, analysis >>

FetcherResponse(outcome, html, error, now) ==
  /\ fetcher.pc \in { "bbcFetch", "nytDirect", "nytProxy", "cnnFetch", "genericFetch" }
  /\ fetcher' = requestReturned(fetcher, outcome, html, error, now)
  /\ UNCHANGED << crawler, parser, analysis >>

----------------------------------------------------------------------------
(* The page parsers applied to one page, once or twice.                    *)

NoParse ==
  [ adapter |-> "", html |-> NoPage, url |-> MalformedUrl, calls |-> << >> ]

\* the URL of an article of the site of an adapter
ArticleUrls(adapter) ==
  { [ wellFormed |-> TRUE, protocol |-> "https:",
      host |-> CASE adapter = "nyt" -> www_nytimes_com
                 [] adapter = "cnn" -> edition_cnn_com
                 [] OTHER -> bbc_com,
      segment |-> segment ] : segment \in PathSegments }

\* a parser that stamps every article with the day of the call, whatever date
\* the page carries
parseHtmlStampedNow(adapter, html, url, now) ==
  [ (CASE adapter = "nyt" -> parseNYTHtml(html, url, now)
       [] adapter = "cnn" -> parseCNNHtml(html, url, now)
       [] OTHER -> extractBBCContent(html, url, now))
    EXCEPT !.publishDate = toLocaleDateString(now) ]

\* the parser of an adapter
parseHtml(adapter, html, url, now) ==
  CASE adapter = "nyt" -> parseNYTHtml(html, url, now)
    [] adapter = "cnn" -> parseCNNHtml(html, url, now)
    [] OTHER -> extractBBCContent(html, url, now)

\* one more call of the parser on the same page and URL, not before the last
Extract(now) ==
  /\ Len(parser.calls) < 2
  /\ \A k \in 1..Len(parser.calls) : parser.calls[k].now <= now
  /\ parser' = [ parser EXCEPT !.calls =
                   Append(@, [ now |-> now,
                               article |-> parseHtml(parser.adapter, parser.html,
                                                     parser.url, now) ]) ]
  /\ UNCHANGED << crawler, fetcher, analysis >>

----------------------------------------------------------------------------
(* RealTimeAnalysisService (hooks/useAnalysis.ts): startAnalysis, its      *)
(* setInterval callback, completeAnalysisWithGemini and stopAnalysis.  An  *)
(* analysis is known by its number, the count of startAnalysis calls so    *)
(* far; the subscribers return normally.                                   *)

\* number of startAnalysis calls
MaxAnalyses == 2

\* analysisProgress is kept in tenths of a percent, the Gemini stages being
\* mapped to halves (95 + progress * 0.05)
Percent(p) == 10 * p

\* the progress of the six steps of the interval callback
steps == << 35, 50, 65, 80, 95, 100 >>

IdleAnalysis ==
  [ useGeminiAPI |-> FALSE, analysisInterval |-> None, runs |-> << >>, emitted |-> << >> ]

\* stopped notes that the caller has called stopAnalysis() since the analysis
\* began; the service keeps no such field
NewRun(source) ==
  [ source |-> source, pc |-> "", timer |-> FALSE, stepIndex |-> 0, gemini |-> "",
    summary |-> "", stopped |-> FALSE ]

\* emit(data): every subscriber is handed data.  kind tells what data carries:
\* progress alone, a partial result, or one of the final summaries
emit(a, run, kind, analysisProgress) ==
  [ a EXCEPT !.emitted = Append(@, [ run |-> run, kind |-> kind,
                                      analysisProgress |-> analysisProgress ]),
             !.runs[run].summary =
                IF kind \in { "standard", "enhanced", "fetchError" } THEN kind ELSE @ ]

\* stopAnalysis(): the interval the service holds is cleared
stopAnalysis(a) ==
  IF a.analysisInterval # None
  THEN [ a EXCEPT !.runs[a.analysisInterval].timer = FALSE, !.analysisInterval = None ]
  ELSE a

\* this.analysisInterval = window.setInterval(...)
setInterval(a, run) ==
  [ a EXCEPT !.runs[run].timer = TRUE, !.runs[run].pc = "ticking", !.analysisInterval = run ]

\* startAnalysis(content, source, tone) up to its first suspension
startAnalysis(a0, source) ==
  LET run == Len(a0.runs) + 1
      a == [ stopAnalysis(a0) EXCEPT !.runs = Append(@, NewRun(source)), !.emitted = << >> ]
  IN  IF source = "url"
      THEN [ emit(a, run, "progress", Percent(5)) EXCEPT !.runs[run].pc = "fetching" ]
      ELSE setInterval(a, run)

\* startAnalysis after fetchArticleWithFallback has settled
fetchSettled(a0, run, ok) ==
  LET a == [ a0 EXCEPT !.emitted = << >> ]
  IN  IF ok THEN setInterval(emit(a, run, "article", Percent(30)), run)
      ELSE [ stopAnalysis(emit(a, run, "fetchError", Percent(100))) EXCEPT
               !.runs[run].pc = "done" ]

\* a catch that only logs the failure
standardSummaryNotEmitted(a, run) == [ a EXCEPT !.runs[run].pc = "done" ]

\* the final step without Gemini, and the catch of completeAnalysisWithGemini:
\* emit(generateCompleteSummary(...)), whose analysisProgress is 100, and
\* stopAnalysis()
standardSummary(a, run) ==
  [ stopAnalysis(emit(a, run, "standard", Percent(100))) EXCEPT !.runs[run].pc = "done" ]

\* completeAnalysisWithGemini up to the await of the Gemini request: progress
\* 95, then the stages 'preparing' (10) and 'analyzing' (30) of summarizeArticle
completeAnalysisWithGemini(a, run) ==
  [ emit(emit(emit(a, run, "progress", Percent(95)),
              run, "progress", Percent(95) + 10 \div 2),
         run, "progress", Percent(95) + 30 \div 2)
      EXCEPT !.runs[run].pc = "gemini", !.runs[run].gemini = "pending" ]

\* the callback of setInterval
intervalFired(a0, run) ==
  LET a == [ a0 EXCEPT !.emitted = << >> ]
      stepIndex == a.runs[run].stepIndex
      progress == steps[stepIndex + 1]
      a1 == emit(a, run, "progress", Percent(progress))
      a2 == IF progress >= 50 THEN emit(a1, run, "bias", None) ELSE a1
      a3 == IF progress >= 65 THEN emit(a2, run, "credibility", None) ELSE a2
      a4 == [ a3 EXCEPT !.runs[run].stepIndex = stepIndex + 1 ]
  IN  IF stepIndex < Len(steps)
      THEN IF stepIndex + 1 >= Len(steps)
           THEN IF a.useGeminiAPI THEN completeAnalysisWithGemini(a4, run)
                ELSE standardSummary(a4, run)
           ELSE a4
      ELSE a

\* the Gemini request settles: summarizeArticle reports 'processing' (70) and
\* 'complete' (100) and the enhanced summary is emitted, or it throws and the
\* catch falls back to the standard summary
geminiSettled(a0, run, ok) ==
  LET a == [ a0 EXCEPT !.emitted = << >>, !.runs[run].gemini = IF ok THEN "ok" ELSE "failed" ]
  IN  IF ok
      THEN [ stopAnalysis(emit(emit(emit(a, run, "progress", Percent(95) + 70 \div 2),
                                     run, "progress", Percent(95) + 100 \div 2),
                                run, "enhanced", Percent(100)))
               EXCEPT !.runs[run].pc = "done" ]
      ELSE standardSummary(a, run)

\* The actions of the analysis service.
SetGeminiAPIKey(ok) ==
  /\ analysis' = [ analysis EXCEPT !.useGeminiAPI = ok, !.emitted = << >> ]
  /\ UNCHANGED << crawler, fetcher, parser >>

StartAnalysis(source) ==
  /\ Len(analysis.runs) < MaxAnalyses
  /\ analysis' = startAnalysis(analysis, source)
  /\ UNCHANGED << crawler, fetcher, parser >>

FetchSettled(run, ok) ==
  /\ analysis.runs[run].pc = "fetching"
  /\ analysis' = fetchSettled(analysis, run, ok)
  /\ UNCHANGED << crawler, fetcher, parser >>

IntervalFired(run) ==
  /\ analysis.runs[run].timer
  /\ analysis' = intervalFired(analysis, run)
  /\ UNCHANGED << crawler, fetcher, parser >>

GeminiSettled(run, ok) ==
  /\ analysis.runs[run].gemini = "pending"
  /\ analysis' = geminiSettled(analysis, run, ok)
  /\ UNCHANGED << crawler, fetcher, parser >>

StopAnalysis ==
  /\ analysis' = [ stopAnalysis(analysis) EXCEPT
                     !.emitted = << >>,
                     !.runs = [ r \in DOMAIN @ |->
                                  IF @[r].pc # "done" THEN [ @[r] EXCEPT !.stopped = TRUE ]
                                  ELSE @[r] ] ]
  /\ UNCHANGED << crawler, fetcher, parser >>

----------------------------------------------------------------------------
(* The specifications. *)

\* the other services of the application, before their first call
Offline ==
  /\ fetcher = IdleFetcher
  /\ parser = NoParse
  /\ analysis = IdleAnalysis

\* the fields of the crawler as constructed (the module's singleton), other
\* than the set of callbacks
Constructed ==
  /\ isRunning = FALSE
  /\ currentProgress = << >>
  /\ crawledArticles = << >>
  /\ crawlInterval = FALSE
  /\ sourcesToCrawl = << >>
  /\ groupStart = 0
  /\ orch = "idle"
  /\ workers = << >>
  /\ promise = "none"
  /\ unsubscribed = {}
  /\ stopRequested = FALSE
  /\ op = "new"
  /\ thrown = NoError
  /\ emits = << >>
  /\ writers = << >>

\* the crawler when the hook has mounted and subscribed its callback
Init ==
  /\ Constructed
  /\ progressCallbacks = << HookHandler >>
  /\ Offline

\* A client that asks isCurrentlyRunning() before it calls, as every caller in
\* the repository does.  The first batch of a crawler is given any source list;
\* a later batch is the one the repository's callers ask for, crawlAllSources()
\* with its default argument.
Next ==
  \/ \E sources \in SourceLists :
        ~isRunning /\ promise = "none" /\ CrawlAllSources(sources, Passive)
  \/ ~isRunning /\ promise # "none" /\ CrawlAllSources(NEWS_SOURCES, Passive)
  \/ WorkerStep(Passive)
  \/ GroupDelayDone(Passive)

Spec == Init /\ [][Next]_vars

\* A client that also calls while a batch runs.  Such a call is rejected before
\* its argument is read, so two arguments stand for all.
SecondCall ==
  \E sources \in { << >>, NEWS_SOURCES } : isRunning /\ CrawlAllSources(sources, Passive)

ReentrantNext == Next \/ SecondCall

ReentrantSpec == Init /\ [][ReentrantNext]_vars

\* Every fetch returns or times out (axios timeout: 10000) and every timer
\* fires, so a worker or a group delay that can resume does resume.
LiveSpec == Spec /\ WF_vars(WorkerStep(Passive)) /\ WF_vars(GroupDelayDone(Passive))

\* The application: the hook and the periodic timer drive the crawler, always
\* with the pre-configured sources.
AppNext ==
  \/ HookStartCrawling
  \/ HookStopCrawling
  \/ StartPeriodicCrawling
  \/ StopPeriodicCrawling
  \/ TimerTick
  \/ WorkerStep(Passive)
  \/ GroupDelayDone(Passive)

AppSpec == Init /\ [][AppNext]_vars

\* The progress bus with callbacks that come and go: between two steps, and in
\* the middle of a publish, where one callback of a step may call an unsubscribe
\* function (its own or another's).  The crawler runs batches over three sources,
\* that is two groups.
BusSources ==
  << [id |-> 3, rss |-> TRUE], [id |-> 4, rss |-> TRUE], [id |-> 5, rss |-> TRUE] >>

UnsubscribingBehaviours ==
  { [ Passive EXCEPT ![g] = v ] :
      g \in Range(progressCallbacks), v \in Range(progressCallbacks) \cup unsubscribed }

BusBehaviours == { Passive } \cup UnsubscribingBehaviours

BusInit ==
  /\ Constructed
  /\ progressCallbacks = << >>
  /\ Offline

BusNext ==
  \/ \E h \in Handlers : SubscribeToProgress(h)
  \/ \E h \in Handlers : Unsubscribe(h)
  \/ \E beh \in BusBehaviours : ~isRunning /\ CrawlAllSources(BusSources, beh)
  \/ \E beh \in BusBehaviours : WorkerStep(beh)
  \/ \E beh \in BusBehaviours : GroupDelayDone(beh)

BusSpec == BusInit /\ [][BusNext]_vars

\* The fetcher: one extraction after another, of any URL, over a web where a
\* request fails, is answered without a page, or is answered with any page.
FetchInit ==
  /\ Constructed
  /\ progressCallbacks = << >>
  /\ Offline

FetchNext ==
  \/ \E url \in Urls : FetchArticle(url)
  \/ \E now \in Days : FetcherTimer(now)
  \/ \E html \in Markup, now \in Days : FetcherResponse("ok", html, NoError, now)
  \/ \E now \in Days : FetcherResponse("empty", NoPage, NoError, now)
  \/ \E error \in RequestErrors, now \in Days : FetcherResponse("failed", NoPage, error, now)

FetchSpec == FetchInit /\ [][FetchNext]_vars

\* The parsers as functions: any page of the model, the URL of an article of
\* the adapter's site, and up to two calls on days that do not go back.
ParseInit ==
  /\ Constructed
  /\ progressCallbacks = << >>
  /\ fetcher = IdleFetcher
  /\ analysis = IdleAnalysis
  /\ \E adapter \in { "nyt", "cnn", "bbc" }, html \in Markup :
        \E url \in ArticleUrls(adapter) :
           parser = [ adapter |-> adapter, html |-> html, url |-> url, calls |-> << >> ]

ParseNext == \E now \in Days : Extract(now)

ParseSpec == ParseInit /\ [][ParseNext]_vars

\* The analysis service under a user who starts analyses of a text or of a URL,
\* stops them and enters or removes the Gemini key at any moment.
AnalysisInit ==
  /\ Constructed
  /\ progressCallbacks = << >>
  /\ Offline

AnalysisNext ==
  \/ \E ok \in BOOLEAN : SetGeminiAPIKey(ok)
  \/ \E source \in { "url", "text" } : StartAnalysis(source)
  \/ \E run \in 1..Len(analysis.runs), ok \in BOOLEAN : FetchSettled(run, ok)
  \/ \E run \in 1..Len(analysis.runs) : IntervalFired(run)
  \/ \E run \in 1..Len(analysis.runs), ok \in BOOLEAN : GeminiSettled(run, ok)
  \/ StopAnalysis

AnalysisSpec == AnalysisInit /\ [][AnalysisNext]_vars


\* A subscriber that may throw when it is handed the initial snapshot of a
\* batch, and a client that calls again after a call of his was rejected.
ThrowNext ==
  \/ Next
  \/ \E sources \in SourceLists, thrower \in Handlers :
        promise = "none" /\ CrawlAllSourcesSubscriberThrows(sources, thrower)
  \/ \E thrower \in Handlers :
        promise = "resolved" /\ CrawlAllSourcesSubscriberThrows(NEWS_SOURCES, thrower)
  \/ promise = "rejected" /\ thrown = SubscriberError /\ CrawlAllSources(NEWS_SOURCES, Passive)

ThrowSpec == Init /\ [][ThrowNext]_vars

----------------------------------------------------------------------------
(* Properties. *)

Statuses(progress) == { progress[id].status : id \in DOMAIN progress }

Crawling(progress) == { id \in DOMAIN progress : progress[id].status = "crawling" }

Terminal(progress) == \A id \in DOMAIN progress : progress[id].status \in { "completed", "error" }

DistinctIds(sources) == Cardinality(IdsOf(sources)) = Len(sources)

\* C1: a crawlAllSources call made while a batch is running throws 'Crawler is
\* already running' and changes nothing of the batch in flight: the progress
\* map, the collected articles, isRunning and the workers stay as they are and
\* the call publishes nothing.
C1_RejectedCallChangesNothing ==
  [][ (isRunning /\ op' = "crawlAllSources") =>
        /\ thrown' = AlreadyRunning
        /\ emits' = << >>
        /\ UNCHANGED << isRunning, currentProgress, crawledArticles, sourcesToCrawl,
                        groupStart, orch, workers, promise, progressCallbacks >> ]_vars

C1_Witness ==
  /\ op = "crawlAllSources"
  /\ thrown = AlreadyRunning
  /\ isRunning
  /\ Crawling(currentProgress) # {}
  /\ "completed" \in Statuses(currentProgress)
  /\ crawledArticles # << >>

\* C2: at every moment of every batch at most batchSize = 2 sources have status
\* 'crawling', in the progress map and in every snapshot handed to a subscriber.
C2_AtMostTwoCrawling ==
  /\ Cardinality(Crawling(currentProgress)) <= 2
  /\ \A k \in 1..Len(emits) : Cardinality(Crawling(emits[k].snapshot)) <= 2

C2_Witness ==
  /\ Len(sourcesToCrawl) = 3
  /\ DistinctIds(sourcesToCrawl)
  /\ Cardinality(Crawling(currentProgress)) = 2
  /\ "pending" \in Statuses(currentProgress)
  /\ \E k \in 1..Len(emits) :
        /\ emits[k].calls # << >>
        /\ Cardinality(Crawling(emits[k].snapshot)) = 2

\* C4: when the promise of crawlAllSources has resolved, every progress entry
\* of the batch is 'completed' or 'error'.
C4_ResolvedMeansTerminal ==
  promise = "resolved" => Terminal(currentProgress)

C4_Witness ==
  /\ promise = "resolved"
  /\ Len(sourcesToCrawl) = 3
  /\ DistinctIds(sourcesToCrawl)
  /\ Statuses(currentProgress) = { "completed", "error" }

\* the positions whose worker crawls the source with this id
CrawlersOf(id) == { p \in 1..Len(sourcesToCrawl) : sourcesToCrawl[p].id = id }

\* C5 as stated: for every source list, from the initial snapshot on the number
\* of progress entries, in the map and in each published snapshot, equals the
\* number of input sources, and each entry has a single writer.
C5_OneEntryPerSource ==
  promise # "none" =>
    /\ Cardinality(DOMAIN currentProgress) = Len(sourcesToCrawl)
    /\ \A k \in 1..Len(emits) : Cardinality(DOMAIN emits[k].snapshot) = Len(sourcesToCrawl)
    /\ \A id \in DOMAIN writers : Cardinality(writers[id]) <= 1

\* C5 amended: the same, for every source list whose ids are pairwise distinct;
\* the single writer of an entry is the worker that crawls that source.
C5_OneEntryPerDistinctSource ==
  (promise # "none" /\ DistinctIds(sourcesToCrawl)) =>
    /\ Cardinality(DOMAIN currentProgress) = Len(sourcesToCrawl)
    /\ \A k \in 1..Len(emits) : Cardinality(DOMAIN emits[k].snapshot) = Len(sourcesToCrawl)
    /\ \A id \in DOMAIN writers :
          /\ Cardinality(writers[id]) <= 1
          /\ writers[id] \subseteq CrawlersOf(id)

C5_Witness ==
  /\ promise = "resolved"
  /\ Len(sourcesToCrawl) = 3
  /\ DistinctIds(sourcesToCrawl)
  /\ \A id \in DOMAIN writers : Cardinality(writers[id]) = 1
  /\ emits # << >>

\* C3 as stated: when a two-source batch has ended in which every fetch for
\* source A failed and source B yielded 3 articles, the result is exactly B's 3
\* articles, A's entry is 'error' with a message, B's entry is 'completed' and
\* the crawler is idle, whether A has a feed or not.
C3_PartialFailure ==
  (promise = "resolved" /\ Len(sourcesToCrawl) = 2) =>
    \A a \in 1..2, b \in 1..2 :
      ( /\ sourcesToCrawl[a].id # sourcesToCrawl[b].id
        /\ workers[a].allFailed
        /\ Len(workers[b].articles) = 3 ) =>
      /\ Len(crawledArticles) = 3
      /\ \A k \in 1..3 : crawledArticles[k].src = b
      /\ currentProgress[sourcesToCrawl[a].id].status = "error"
      /\ currentProgress[sourcesToCrawl[a].id].error # NoError
      /\ currentProgress[sourcesToCrawl[b].id].status = "completed"
      /\ ~isRunning

Valid(a) == a.publishDate # InvalidDate

\* C6 as stated: the sequence crawlAllSources returns is in descending order of
\* publishDate, and articles of equal publishDate keep the order in which they
\* were appended.
C6_SortedDescendingStable ==
  promise = "resolved" =>
    \A i \in 1..Len(crawledArticles), j \in 1..Len(crawledArticles) :
      (i < j /\ Valid(crawledArticles[i]) /\ Valid(crawledArticles[j])) =>
        /\ crawledArticles[i].publishDate >= crawledArticles[j].publishDate
        /\ crawledArticles[i].publishDate = crawledArticles[j].publishDate =>
              crawledArticles[i].ord < crawledArticles[j].ord

\* C7: every batch that starts ends: its promise resolves and the crawler is
\* idle again, whichever sources fail.
C7_BatchEnds ==
  (promise = "pending") ~> (promise = "resolved" /\ ~isRunning)

C7_Witness ==
  /\ promise = "resolved"
  /\ ~isRunning
  /\ Len(sourcesToCrawl) = 3
  /\ "error" \in Statuses(currentProgress)
  /\ \E p \in 1..3 : workers[p].allFailed /\ sourcesToCrawl[p].rss

\* C8 as stated: once the hook's stopCrawling has been called during a batch,
\* no further group starts, nothing more is published and no article is
\* appended to the result collection.
C8_StopHaltsBatch ==
  [][ (stopRequested /\ isRunning) =>
        /\ groupStart' = groupStart
        /\ emits' = << >>
        /\ Len(crawledArticles') = Len(crawledArticles) ]_vars

\* the place of handler h in the sequence s (0 when absent)
Place(s, h) == IndexOf(s, h)

Occurrences(s, h) == Cardinality({ j \in 1..Len(s) : s[j] = h })

\* h had its unsubscribe function called before the j-th invocation of publish e
UnsubscribedBy(e, j, h) ==
  \/ h \in e.unsubscribedBefore
  \/ \E i \in 1..(j - 1) : e.beh[e.calls[i]] = h

\* C9: each publish invokes the callbacks subscribed at their turn exactly once,
\* in subscription order, each with the complete progress map; a callback whose
\* unsubscribe function has been called is not invoked.
C9_PublishOrderAndSnapshot ==
  \A k \in 1..Len(emits) :
    LET e == emits[k] IN
      /\ \A j \in 1..Len(e.calls) : e.calls[j] \in Range(e.subscribers)
      /\ \A i \in 1..Len(e.calls), j \in 1..Len(e.calls) :
            i < j => Place(e.subscribers, e.calls[i]) < Place(e.subscribers, e.calls[j])
      /\ \A h \in Range(e.subscribers) :
            \/ Occurrences(e.calls, h) = 1
            \/ /\ Occurrences(e.calls, h) = 0
               /\ \E i \in 1..Len(e.calls) :
                     /\ e.beh[e.calls[i]] = h
                     /\ Place(e.subscribers, e.calls[i]) < Place(e.subscribers, h)
      /\ \A j \in 1..Len(e.calls) : ~UnsubscribedBy(e, j, e.calls[j])
      /\ DOMAIN e.snapshot = DOMAIN currentProgress
      /\ k = Len(emits) => e.snapshot = currentProgress

C9_Witness ==
  /\ Len(emits) >= 2
  /\ emits[1].subscribers = << 3, 1 >>
  /\ emits[1].unsubscribedBefore = {2}
  /\ emits[1].calls = << 3, 1 >>
  /\ emits[2].calls = << 3, 1 >>
  /\ Cardinality(DOMAIN emits[2].snapshot) = 3
  /\ emits[2].snapshot # emits[1].snapshot

\* the publish e in which some invoked callback calls an unsubscribe function
UnsubscribesDuring(e) == \E j \in 1..Len(e.calls) : e.beh[e.calls[j]] # None

\* C10: when a callback unsubscribes itself or another callback during a
\* publish, the publish goes through and every callback subscribed at its
\* start, other than the one unsubscribed, is invoked exactly once.
C10_UnsubscribeDuringPublish ==
  \A k \in 1..Len(emits) :
    LET e == emits[k] IN
      UnsubscribesDuring(e) =>
        /\ thrown = NoError
        /\ \A h \in Range(e.subscribers) \ UnsubscribeCalls(e.calls, e.beh) :
              Occurrences(e.calls, h) = 1

C10_Witness ==
  /\ emits # << >>
  /\ Len(emits[1].subscribers) = 3
  /\ UnsubscribesDuring(emits[1])
  /\ emits[1].beh[emits[1].subscribers[1]] = emits[1].subscribers[1]
  /\ Len(emits[1].calls) = 3

----------------------------------------------------------------------------
(* The article scrapers. *)

\* C11: every article returned as a success has a non-empty title and, unless
\* its content is the scraper's failure placeholder, content of at least 100
\* characters.  Stated for the extractions of fetchArticle that resolve.
C11_SuccessHasMinimumContent ==
  fetcher.settled = "resolved" =>
    /\ fetcher.data.title # ""
    /\ fetcher.data.content.by # "placeholder" => fetcher.data.content.len >= 100

\* what the generic path and the BBC scraper throw for a body under 100
\* characters
InsufficientContent ==
  { "Article content is too short or could not be extracted",
    "Unable to extract sufficient content from this BBC News article. The article may be behind a paywall or use a different layout." }

\* C12: no extraction is rejected because the content of the page is under the
\* minimum length: an adapter returns a placeholder record instead.
C12_InsufficientContentIsNotAnError ==
  fetcher.settled = "rejected" =>
    \A message \in InsufficientContent : fetcher.error # "Failed to fetch article: " \o message

\* a URL fetchArticle must refuse: malformed, or of another scheme than http(s)
Refused(url) == ~url.wellFormed \/ url.protocol \notin { "http:", "https:" }

\* C13: fetchArticle rejects every malformed or non-http(s) URL, having emitted
\* no progress event and issued no request, in the call itself (no retry).
C13_InvalidUrlRejectedAtOnce ==
  (fetcher # IdleFetcher /\ Refused(fetcher.url)) =>
    /\ fetcher.settled = "rejected"
    /\ fetcher.pc = "idle"
    /\ fetcher.progress = << >>
    /\ fetcher.requests = << >>

C13_Witness ==
  /\ fetcher.url.wellFormed
  /\ fetcher.url.protocol = "ftp:"
  /\ fetcher.settled = "rejected"
  /\ fetcher.error = "Failed to fetch article: Invalid URL protocol. Only HTTP and HTTPS are supported."

\* a host name that is a domain or one of its subdomains
DomainOrSubdomain(hostname, domain) ==
  hostname = domain \/ endsWith(hostname, << "." >> \o domain)

\* the extractor of a host name when sites are matched by suffix
SiteOf(hostname) ==
  IF DomainOrSubdomain(hostname, bbc_com) \/ DomainOrSubdomain(hostname, bbc_co_uk)
  THEN "bbc"
  ELSE IF DomainOrSubdomain(hostname, nytimes_com) THEN "nyt"
       ELSE IF DomainOrSubdomain(hostname, cnn_com) THEN "cnn" ELSE "generic"

\* C14: a URL goes to the BBC, NYT or CNN scraper if and only if its
\* lower-cased host name is the site's domain or a subdomain of it, and to the
\* generic extractor otherwise; the route is a function of the host name.
C14_RoutedBySuffix ==
  fetcher.route # "" => fetcher.route = SiteOf(toLowerCase(fetcher.url.host))

\* C15: extractNYTContent makes at most two requests for one URL, the first
\* direct and the second through the proxy; the proxy is asked only after the
\* direct attempt failed (an error, or an answer without data); when the proxy
\* fails too the extraction rejects with no further request.
C15_DirectThenProxyOnce ==
  LET r == fetcher.requests
  IN  fetcher.route = "nyt" =>
        /\ Len(r) <= 2
        /\ Len(r) >= 1 => r[1].via = "direct"
        /\ Len(r) = 2 => r[2].via = "proxy" /\ r[1].outcome \in { "failed", "empty" }
        /\ (Len(r) = 2 /\ r[2].outcome \in { "failed", "empty" }) =>
              fetcher.settled = "rejected" /\ fetcher.pc = "idle"

C15_Witness ==
  /\ fetcher.route = "nyt"
  /\ Len(fetcher.requests) = 2
  /\ fetcher.requests[1].outcome = "failed"
  /\ fetcher.requests[2].outcome = "failed"
  /\ fetcher.settled = "rejected"

----------------------------------------------------------------------------
(* The page parsers. *)

\* what each strategy yields on its own: the text of the first JSON-LD block
\* that has one, and the paragraphs the adapter keeps, joined
JsonLdText(html) ==
  LET found == { k \in 1..Len(html.jsonLd) :
                   html.jsonLd[k].articleBody # 0 \/ html.jsonLd[k].description # 0 }
      data == html.jsonLd[First(found)]
  IN  IF found = {} THEN NoContent
      ELSE [ by |-> "jsonLd",
             len |-> IF data.articleBody # 0 THEN data.articleBody ELSE data.description ]

ParagraphText(adapter, html) ==
  IF adapter = "nyt"
  THEN paragraphContent(SelectSeq(html.paragraphs, LongerThan50), 15, 1)
  ELSE paragraphContent(SelectSeq(html.paragraphs, LongerThan30), 20, 1)

\* the body by the chain class patterns, JSON-LD, paragraphs: the output of the
\* first of them that is over 100 characters long
ChainBody(adapter, html) ==
  IF classContent(html).len > 100 THEN classContent(html)
  ELSE IF JsonLdText(html).len > 100 THEN JsonLdText(html)
       ELSE IF ParagraphText(adapter, html).len > 100 THEN ParagraphText(adapter, html)
            ELSE NoContent

\* C16: in the NYT and CNN parsers the body is the output of the first strategy,
\* in the order class patterns, JSON-LD, paragraph heuristic, that yields text
\* over the minimum length.
C16_BodyByPriorityChain ==
  \A k \in 1..Len(parser.calls) :
     (parser.adapter \in { "nyt", "cnn" } /\ ChainBody(parser.adapter, parser.html) # NoContent)
        => parser.calls[k].article.content = ChainBody(parser.adapter, parser.html)

----------------------------------------------------------------------------
(* Dates. *)

\* C17: an article extracted from a feed item whose date string cannot be
\* parsed carries the extraction time as its publishDate: no article the
\* crawler holds, in a worker's list or in the accumulated result, has an
\* invalid date.
C17_UnparseableDateFallsBackToNow ==
  /\ \A i \in 1..Len(crawledArticles) : crawledArticles[i].publishDate # InvalidDate
  /\ \A p \in DOMAIN workers :
        \A i \in 1..Len(workers[p].articles) :
           workers[p].articles[i].publishDate # InvalidDate

----------------------------------------------------------------------------
(* Tags. *)

NoDuplicates(tags) ==
  \A i \in 1..Len(tags), j \in 1..Len(tags) : tags[i] = tags[j] => i = j

\* C18: the tags of every article the BBC, NYT and CNN parsers return hold no
\* string twice, whatever keyword list and section the page carries.
C18_TagsDeduplicated ==
  \A k \in 1..Len(parser.calls) : NoDuplicates(parser.calls[k].article.tags)

----------------------------------------------------------------------------
(* Idempotence of the parsers. *)

\* an article without its publishDate
Undated(article) == [ article EXCEPT !.publishDate = NoText ]

----------------------------------------------------------------------------
(* The fallback of the analysis service. *)

\* the step in which the Gemini request of an analysis fails
GeminiFails(run) ==
  /\ run \in DOMAIN analysis.runs
  /\ analysis.runs[run].gemini = "pending"
  /\ analysis'.runs[run].gemini = "failed"

\* C20: when the Gemini request of an analysis fails, that step emits the
\* standard summary of the analysis with analysisProgress 100 and nothing
\* else, the analysis has its final summary and is done, and the service holds
\* no timer any more: the timer it held is cleared.
C20_GeminiFailureFallsBack ==
  [][ \A run \in 1..MaxAnalyses :
        GeminiFails(run) =>
          /\ analysis'.emitted = << [ run |-> run, kind |-> "standard",
                                      analysisProgress |-> Percent(100) ] >>
          /\ analysis'.runs[run].summary = "standard"
          /\ analysis'.runs[run].pc = "done"
          /\ analysis'.analysisInterval = None
          /\ analysis.analysisInterval # None =>
                ~analysis'.runs[analysis.analysisInterval].timer ]_vars

\* an analysis with Gemini enabled whose request has just failed
C20_Witness ==
  \E run \in DOMAIN analysis.runs :
     /\ analysis.useGeminiAPI
     /\ analysis.runs[run].gemini = "failed"
     /\ analysis.runs[run].stepIndex = Len(steps)
     /\ analysis.emitted = << [ run |-> run, kind |-> "standard",
                                analysisProgress |-> Percent(100) ] >>

----------------------------------------------------------------------------
(* The life of a progress entry. *)

\* one move of a status, or none
Forward(s, t) ==
  \/ s = t
  \/ s = "pending" /\ t = "crawling"
  \/ s = "crawling" /\ t \in { "completed", "error" }

\* two successive values of the progress map
ForwardMaps(before, after) ==
  /\ DOMAIN before = DOMAIN after
  /\ \A id \in DOMAIN before : Forward(before[id].status, after[id].status)

\* the values the progress map takes through a step: what it was, what each
\* publish of the step showed, what it is
Through(first, published, last) ==
  << first >> \o [ k \in 1..Len(published) |-> published[k].snapshot ] \o << last >>

ForwardThrough(maps) == \A k \in 1..(Len(maps) - 1) : ForwardMaps(maps[k], maps[k + 1])

\* a step in which crawlAllSources starts a batch
BatchStarts == op' = "crawlAllSources" /\ thrown' = NoError

\* C21 as stated: in every step that does not start a batch, and through the
\* publishes of every step that does, each entry's status stays or moves along
\* pending -> crawling -> completed | error, whatever the source list.
C21_StatusMovesForward ==
  [][ IF BatchStarts
        THEN emits' # << >> /\
             ForwardThrough(Through(emits'[1].snapshot, emits', currentProgress'))
        ELSE ForwardThrough(Through(currentProgress, emits', currentProgress')) ]_vars

\* C21 amended: the same, for every batch over sources with distinct ids.
C21_StatusMovesForwardDistinctIds ==
  [][ DistinctIds(sourcesToCrawl') =>
        IF BatchStarts
          THEN emits' # << >> /\
               ForwardThrough(Through(emits'[1].snapshot, emits', currentProgress'))
          ELSE ForwardThrough(Through(currentProgress, emits', currentProgress')) ]_vars

\* the second group is crawling while the first has ended, one source
\* completed and one in error
C21_Witness ==
  /\ Len(sourcesToCrawl) = 3
  /\ DistinctIds(sourcesToCrawl)
  /\ groupStart = batchSize
  /\ Statuses(currentProgress) = { "completed", "error", "crawling" }
  /\ \E k \in 1..Len(emits) : "crawling" \in Statuses(emits[k].snapshot)

----------------------------------------------------------------------------
(* The concurrency groups. *)

\* the group of a position of the source list, counted from 0
GroupIndex(p) == (p - 1) \div batchSize

\* the positions whose crawlSource has been called
Started(ws) == { p \in DOMAIN ws : ws[p].pc # "idle" }

\* the positions whose crawlSource is called in this step
NewlyStarted == IF BatchStarts THEN Started(workers') ELSE Started(workers') \ Started(workers)

\* C22: the workers started so far are those of the groups up to the one in
\* hand, group k being the positions 2k+1 and 2k+2 of the list (2k and 2k+1
\* counted from 0); when a worker is started, every worker of the groups before
\* its own has returned and left its source 'completed' or 'error', and the
\* worker sets its own source to 'crawling'; no worker of a group runs while
\* a worker of an earlier group does.
C22_GroupsInSequence ==
  [][ /\ promise' # "none" =>
           /\ groupStart' % batchSize = 0
           /\ Started(workers') =
                1..Min(groupStart' + batchSize, Len(sourcesToCrawl'))
           /\ \A r \in Started(workers'), q \in DOMAIN workers' :
                 GroupIndex(q) < GroupIndex(r) => workers'[q].pc = "done"
      /\ \A r \in NewlyStarted :
           /\ currentProgress'[sourcesToCrawl'[r].id].status = "crawling"
           /\ \A q \in DOMAIN workers' :
                 GroupIndex(q) < GroupIndex(r) =>
                   /\ workers[q].pc = "done"
                   /\ currentProgress[sourcesToCrawl[q].id].status
                         \in { "completed", "error" } ]_vars

\* the worker of the second group has just been started, the first group
\* having ended with one source completed and one in error
C22_Witness ==
  /\ op = "groupDelayDone"
  /\ Len(sourcesToCrawl) = 3
  /\ groupStart = batchSize
  /\ workers[1].pc = "done" /\ workers[2].pc = "done"
  /\ workers[3].pc \notin { "idle", "done" }
  /\ { currentProgress[sourcesToCrawl[q].id].status : q \in 1..2 } = { "completed", "error" }
  /\ currentProgress[sourcesToCrawl[3].id].status = "crawling"

----------------------------------------------------------------------------
(* The counters of a progress entry and the articles of a source. *)

\* articlesProcessed <= articlesFound <= maxArticlesPerSource in every entry
CountersInRange(progress) ==
  \A id \in DOMAIN progress :
     /\ progress[id].articlesProcessed <= progress[id].articlesFound
     /\ progress[id].articlesFound <= maxArticlesPerSource

\* the articles of the result that come from the source with this id
ContributionOf(id) ==
  { k \in 1..Len(crawledArticles) : sourcesToCrawl[crawledArticles[k].src].id = id }

\* the counters, the contributions and the order of processing
WithinTheCap ==
  /\ CountersInRange(currentProgress)
  /\ \A k \in 1..Len(emits) : CountersInRange(emits[k].snapshot)
  /\ \A id \in IdsOf(sourcesToCrawl) : Cardinality(ContributionOf(id)) <= maxArticlesPerSource
  /\ \A p \in DOMAIN workers :
        LET articles == workers[p].articles
            entry == currentProgress[sourcesToCrawl[p].id]
        IN  /\ Len(articles) <= maxArticlesPerSource
            /\ \A j \in 1..Len(articles), k \in 1..Len(articles) :
                  j < k => articles[j].idx < articles[k].idx
            /\ \A k \in 1..Len(articles) : articles[k].idx < entry.articlesProcessed
            /\ workers[p].i <= workers[p].found

\* C23 as stated: for every source list, at every point of a batch the
\* counters of every entry satisfy articlesProcessed <= articlesFound <=
\* maxArticlesPerSource, a source contributes at most maxArticlesPerSource
\* articles, and a worker's articles are taken in the listed order, each
\* counted as processed when it is kept.
C23_CountersWithinCap == promise # "none" => WithinTheCap

\* C23 amended: the same, for every source list with pairwise distinct ids.
C23_CountersWithinCapDistinctIds ==
  (promise # "none" /\ DistinctIds(sourcesToCrawl)) => WithinTheCap

\* a feed with more items than the cap has been processed to the cap
C23_Witness ==
  /\ DistinctIds(sourcesToCrawl)
  /\ \E p \in DOMAIN workers :
        /\ Len(FeedItems(sourcesToCrawl[p].id)) > maxArticlesPerSource
        /\ Len(workers[p].articles) = maxArticlesPerSource
        /\ currentProgress[sourcesToCrawl[p].id].articlesProcessed = maxArticlesPerSource
        /\ currentProgress[sourcesToCrawl[p].id].articlesFound = maxArticlesPerSource
        /\ Cardinality(ContributionOf(sourcesToCrawl[p].id)) = maxArticlesPerSource

----------------------------------------------------------------------------
(* The progress events of an extraction. *)

\* the place of a reported stage in the order validating, fetching, parsing,
\* extracting, complete
StageRank(stage) ==
  CASE stage \in { "validation", "detecting" } -> 1
    [] stage \in { "connecting", "fetching", "retrying" } -> 2
    [] stage \in { "processing", "parsing" } -> 3
    [] stage \in { "validating", "extracting", "finalizing" } -> 4
    [] stage = "complete" -> 5
    [] OTHER -> 0

\* the events reported so far, the 'error' events set aside
Reported == SelectSeq(fetcher.progress, LAMBDA e : e.stage # "error")

\* C24: the events fetchArticle hands to its callback during one extraction
\* follow the stage order and their percentage never decreases, on the generic
\* path and when the BBC, NYT or CNN scraper's events are forwarded.
C24_ProgressNeverDecreases ==
  \A j \in 1..Len(Reported), k \in 1..Len(Reported) :
     j < k =>
       /\ StageRank(Reported[j].stage) <= StageRank(Reported[k].stage)
       /\ Reported[j].progress <= Reported[k].progress

\* the positions of the terminal events among the events of the extraction
TerminalEvents == { k \in 1..Len(fetcher.progress) :
                      fetcher.progress[k].stage \in { "complete", "error" } }

\* C25: an extraction that has reported progress and has settled has reported
\* exactly one terminal event, as its last event: 'complete' at 100 when it
\* resolved, 'error' when it rejected.
C25_OneTerminalEvent ==
  (fetcher.settled # "" /\ fetcher.progress # << >>) =>
    /\ TerminalEvents = { Len(fetcher.progress) }
    /\ fetcher.progress[Len(fetcher.progress)] =
          IF fetcher.settled = "resolved"
          THEN [ stage |-> "complete", progress |-> 100 ]
          ELSE [ stage |-> "error", progress |-> 0 ]

----------------------------------------------------------------------------
(* What a subscriber reads when the batch looks complete. *)

\* C26: whenever a subscriber is handed a snapshot with an entry for some
\* source and every entry 'completed' or 'error', what getArticles() returns
\* at that moment is the result the batch resolves with: every article of
\* every source, in sorted order.
C26_CompleteSnapshotHasFinalResult ==
  \A k \in 1..Len(emits) :
     (emits[k].calls # << >> /\ DOMAIN emits[k].snapshot # {} /\ Terminal(emits[k].snapshot))
        => /\ promise = "resolved"
           /\ emits[k].articles = crawledArticles

----------------------------------------------------------------------------
(* isRunning and the calls of crawlAllSources. *)

\* C27: isRunning is true only while the accepted crawlAllSources call is
\* pending: once the call has resolved or rejected, for whatever reason, the
\* crawler is idle, so that the next call is accepted.
C27_IdleWhenCallEnds ==
  /\ isRunning => promise = "pending"
  /\ promise \in { "resolved", "rejected" } => ~isRunning

----------------------------------------------------------------------------
(* An analysis that was stopped. *)

\* C28: once stopAnalysis() has been called on an analysis, no step emits an
\* event of that analysis and no timer of it runs, whatever request of it was
\* in flight at the call.
C28_StoppedAnalysisIsSilent ==
  \A run \in DOMAIN analysis.runs :
     analysis.runs[run].stopped =>
       /\ ~analysis.runs[run].timer
       /\ \A k \in 1..Len(analysis.emitted) : analysis.emitted[k].run # run

----------------------------------------------------------------------------
(* fetchArticleWithFallback. *)

\* C29: fetchArticleWithFallback never rejects: whenever fetchArticle has
\* settled, fetchArticleWithFallback has resolved, with the extracted article
\* or with the placeholder.
C29_FallbackNeverRejects ==
  /\ fetcher.fallback.settled # "rejected"
  /\ fetcher.settled # "" => fetcher.fallback.settled = "resolved"

----------------------------------------------------------------------------
(* C30: neither a tick of the periodic timer nor startCrawling of the hook
   calls crawlAllSources while a batch is running, whatever the order of
   ticks, user starts and batch completions: every call of crawlAllSources in
   the application is made with isRunning false, and none of them is rejected
   with 'Crawler is already running'. *)
C30_EntryPointsNeverReenter ==
  [][ op' = "crawlAllSources" => ~isRunning /\ thrown' # AlreadyRunning ]_vars

\* a tick or a user start arrived while a batch was running, and was dropped
C30_Witness ==
  /\ isRunning
  /\ op \in { "timerTick", "startCrawling" }
  /\ thrown # AlreadyRunning

====
